---- MODULE Spec2Model ----
(***************************************************************************)
(* TFS MCP server: the command executor and the client operations of       *)
(* tfs_mcp_server/tfs_client.py.                                           *)
(*                                                                         *)
(* Text is a sequence of characters, a character is a one-character        *)
(* string (a non-ASCII character is written "U+hhhh"); a byte string is a  *)
(* sequence of numbers 0..255.  An Optional value is a record              *)
(* [some, val]: None is [some |-> FALSE].                                  *)
(***************************************************************************)
EXTENDS Integers, Sequences, FiniteSets, TLC

VARIABLES server, calls, client, pc, caller, opts, command, working_dir, cmd,
          work_dir, proc, spawns, caught, result, ret

vars == <<server, calls, client, pc, caller, opts, command, working_dir, cmd,
          work_dir, proc, spawns, caught, result, ret>>

\* the variables of a single call made on a client directly
frame == <<client, pc, caller, opts, command, working_dir, cmd, work_dir,
           proc, spawns, caught, result, ret>>

(***************************************************************************)
(* Bounds                                                                  *)
(***************************************************************************)
\* longest stdout / stderr byte string a child process writes
MaxBytes == 2

(***************************************************************************)
(* Python values                                                           *)
(***************************************************************************)
None == [some |-> FALSE, val |-> <<>>]

Some(v) == [some |-> TRUE, val |-> v]

\* truth value of an Optional[str]: None and "" are falsy
Truthy(o) == o.some /\ o.val # <<>>

\* `a or b` where a is an Optional[str] and b a str
OrElse(a, b) == IF Truthy(a) THEN a.val ELSE b

\* os.getcwd() of the server process
Getcwd == <<"/", "c", "w", "d">>

Digit == [d \in 0..9 |-> CASE d = 0 -> "0" [] d = 1 -> "1" [] d = 2 -> "2" [] d = 3 -> "3"
                           [] d = 4 -> "4" [] d = 5 -> "5" [] d = 6 -> "6" [] d = 7 -> "7"
                           [] d = 8 -> "8" [] d = 9 -> "9"]

RECURSIVE NatToText(_)
NatToText(n) == IF n < 10 THEN <<Digit[n]>> ELSE NatToText(n \div 10) \o <<Digit[n % 10]>>

\* str(n) of an int
IntToText(n) == IF n < 0 THEN <<"-">> \o NatToText(0 - n) ELSE NatToText(n)

HexDigit == [d \in 0..15 |-> IF d < 10 THEN Digit[d]
                             ELSE CASE d = 10 -> "a" [] d = 11 -> "b" [] d = 12 -> "c"
                                    [] d = 13 -> "d" [] d = 14 -> "e" [] d = 15 -> "f"]

\* '%x' of one byte >= 0x10
HexByte(b) == <<HexDigit[b \div 16], HexDigit[b % 16]>>

\* " ".join(tokens)
RECURSIVE Join(_)
Join(tokens) ==
    IF tokens = <<>> THEN <<>>
    ELSE IF Len(tokens) = 1 THEN tokens[1]
    ELSE tokens[1] \o <<" ">> \o Join(Tail(tokens))

(***************************************************************************)
(* bytes.decode('utf-8'), strict error handling, for one- and two-byte     *)
(* sequences (the byte alphabet holds no lead byte of a longer sequence).  *)
(***************************************************************************)
\* the characters of the code points 32..126, in order (the backslash is
\* written "U+005C", the grave accent "U+0060")
Printable ==
    <<" ", "!", "\"", "#", "$", "%", "&", "'", "(", ")", "*", "+", ",", "-", ".", "/",
      "0", "1", "2", "3", "4", "5", "6", "7", "8", "9", ":", ";", "<", "=", ">", "?",
      "@", "A", "B", "C", "D", "E", "F", "G", "H", "I", "J", "K", "L", "M", "N", "O",
      "P", "Q", "R", "S", "T", "U", "V", "W", "X", "Y", "Z", "[", "U+005C", "]", "^", "_",
      "U+0060", "a", "b", "c", "d", "e", "f", "g", "h", "i", "j", "k", "l", "m", "n", "o",
      "p", "q", "r", "s", "t", "u", "v", "w", "x", "y", "z", "{", "|", "}", "~">>

\* chr(cp) for the code points the byte alphabets can produce: tab, newline,
\* form feed, carriage return, the printable ASCII characters and U+00E9
Chr ==
    [cp \in {9, 10, 12, 13} \cup (32..126) \cup {233} |->
        CASE cp = 9 -> "\t"
          [] cp = 10 -> "\n"
          [] cp = 12 -> "\f"
          [] cp = 13 -> "\r"
          [] cp = 233 -> "U+00E9"
          [] OTHER -> Printable[cp - 31]]

UnicodeDecodeError(b, pos, reason) ==
    [cls |-> "UnicodeDecodeError", byte |-> b, pos |-> pos, reason |-> reason]

InvalidStartByte == <<"i", "n", "v", "a", "l", "i", "d", " ", "s", "t", "a", "r", "t", " ", "b", "y", "t", "e">>

InvalidContinuationByte == <<"i", "n", "v", "a", "l", "i", "d", " ", "c", "o", "n", "t", "i", "n", "u", "a", "t", "i", "o", "n", " ", "b", "y", "t", "e">>

UnexpectedEndOfData == <<"u", "n", "e", "x", "p", "e", "c", "t", "e", "d", " ", "e", "n", "d", " ", "o", "f", " ", "d", "a", "t", "a">>

IsContinuation(b) == b >= 128 /\ b <= 191

IsLead2(b) == b >= 194 /\ b <= 223

\* decodes bytes[i..]; acc is the text decoded so far
RECURSIVE Utf8From(_, _, _)
Utf8From(bytes, i, acc) ==
    IF i > Len(bytes) THEN [ok |-> TRUE, text |-> acc, exc |-> [cls |-> "None"]]
    ELSE LET b == bytes[i] IN
         IF b < 128 THEN Utf8From(bytes, i + 1, Append(acc, Chr[b]))
         ELSE IF ~IsLead2(b)
              THEN [ok |-> FALSE, text |-> <<>>,
                    exc |-> UnicodeDecodeError(b, i - 1, InvalidStartByte)]
         ELSE IF i = Len(bytes)
              THEN [ok |-> FALSE, text |-> <<>>,
                    exc |-> UnicodeDecodeError(b, i - 1, UnexpectedEndOfData)]
         ELSE IF ~IsContinuation(bytes[i + 1])
              THEN [ok |-> FALSE, text |-> <<>>,
                    exc |-> UnicodeDecodeError(b, i - 1, InvalidContinuationByte)]
         ELSE Utf8From(bytes, i + 2,
                       Append(acc, Chr[(b - 192) * 64 + (bytes[i + 1] - 128)]))

Utf8Decode(bytes) == Utf8From(bytes, 1, <<>>)

\* `b.decode('utf-8') if b else ""`
DecodeOrEmpty(bytes) ==
    IF bytes = <<>> THEN [ok |-> TRUE, text |-> <<>>, exc |-> [cls |-> "None"]]
    ELSE Utf8Decode(bytes)

(***************************************************************************)
(* Exceptions and str(e)                                                   *)
(***************************************************************************)
NoException == [cls |-> "None"]

OSErrorOf(cls, errno, strerror, filename) ==
    [cls |-> cls, errno |-> errno, strerror |-> strerror, filename |-> filename]

PlainException(args) == [cls |-> "Exception", args |-> args]

\* repr() of a str holding no quote, backslash or control character
PyRepr(s) == <<"'">> \o s \o <<"'">>

StrOfException(e) ==
    CASE e.cls = "UnicodeDecodeError" ->
           <<"'", "u", "t", "f", "-", "8", "'", " ", "c", "o", "d", "e", "c", " ",
             "c", "a", "n", "'", "t", " ", "d", "e", "c", "o", "d", "e", " ",
             "b", "y", "t", "e", " ", "0", "x">> \o HexByte(e.byte)
           \o <<" ", "i", "n", " ", "p", "o", "s", "i", "t", "i", "o", "n", " ">>
           \o IntToText(e.pos) \o <<":", " ">> \o e.reason
      [] e.cls = "Exception" ->
           IF e.args = <<>> THEN <<>> ELSE e.args[1]
      [] OTHER ->
           <<"[", "E", "r", "r", "n", "o", " ">> \o IntToText(e.errno) \o <<"]", " ">>
           \o e.strerror \o <<":", " ">> \o PyRepr(e.filename)

\* what asyncio.create_subprocess_exec raises when the child cannot be started
LaunchExceptions(argv, cwd) ==
    { OSErrorOf("FileNotFoundError", 2,
                <<"N", "o", " ", "s", "u", "c", "h", " ", "f", "i", "l", "e", " ", "o", "r", " ",
                  "d", "i", "r", "e", "c", "t", "o", "r", "y">>, argv[1]),
      OSErrorOf("PermissionError", 13,
                <<"P", "e", "r", "m", "i", "s", "s", "i", "o", "n", " ", "d", "e", "n", "i", "e", "d">>,
                argv[1]),
      OSErrorOf("NotADirectoryError", 20,
                <<"N", "o", "t", " ", "a", " ", "d", "i", "r", "e", "c", "t", "o", "r", "y">>, cwd),
      PlainException(<< <<"P", "r", "o", "c", "e", "s", "s", " ", "e", "r", "r", "o", "r">> >>),
      PlainException(<<>>) }

(***************************************************************************)
(* The child process                                                       *)
(***************************************************************************)
\* A (ASCII), the two bytes of U+00E9, which are invalid on their own
ByteAlphabet == {65, 195, 169}

RECURSIVE SeqsUpTo(_, _)
SeqsUpTo(S, n) ==
    IF n = 0 THEN {<<>>}
    ELSE LET shorter == SeqsUpTo(S, n - 1) IN
         shorter \cup {Append(s, x) : s \in shorter, x \in S}

ByteStrings == SeqsUpTo(ByteAlphabet, MaxBytes)

\* Process.returncode once the child has exited: an exit status, or -N when
\* the child was killed by signal N (-1: SIGHUP)
ExitCodes == {-1, 0, 1, 2}

\* pipes: the stdout/stderr pipes of the process handle ("none", "open",
\* "closed")
NoProcess ==
    [state |-> "none", argv |-> <<>>, cwd |-> <<>>, pipes |-> "none",
     stdout |-> <<>>, stderr |-> <<>>, returncode |-> 0]

(***************************************************************************)
(* TFSClient and TFSCommandResult                                          *)
(***************************************************************************)
TFSCommandResult(success, output, error, return_code, cmdline) ==
    [success |-> success, output |-> output, error |-> error,
     return_code |-> return_code, command |-> cmdline]

NoResult == TFSCommandResult(FALSE, <<>>, None, 0, <<>>)

\* no return value yet
NoReturn == [kind |-> "none"]

\* TFSClient.__init__
TFSClient(tf_exe_path, working_directory) ==
    [tf_exe_path |-> OrElse(tf_exe_path, <<"t", "f">>),
     working_directory |-> OrElse(working_directory, Getcwd)]

\* cmd = [self.tf_exe_path] + command
CmdOf(self, args) == <<self.tf_exe_path>> \o args

\* work_dir = working_dir or self.working_directory
WorkDirOf(self, dir) == OrElse(dir, self.working_directory)

\* faulty variants of CompletedResult: success judged by an empty stderr;
\* error as `stderr or None`
CompletedResult_StderrDecides(argv, stdout, stderr, returncode) ==
    TFSCommandResult(stderr = <<>>,
                     stdout,
                     IF returncode # 0 THEN Some(stderr) ELSE None,
                     returncode,
                     Join(argv))

CompletedResult_ErrorOrNone(argv, stdout, stderr, returncode) ==
    TFSCommandResult(returncode = 0,
                     stdout,
                     IF stderr # <<>> THEN Some(stderr) ELSE None,
                     returncode,
                     Join(argv))

\* the result built when the child has exited and both streams decoded
CompletedResult(argv, stdout, stderr, returncode) ==
    TFSCommandResult(returncode = 0,
                     stdout,
                     IF returncode # 0 THEN Some(stderr) ELSE None,
                     returncode,
                     Join(argv))

\* faulty variants of ExceptionResult: the errno as return code; the arguments alone
\* as command line
ExceptionResult_ErrnoCode(argv, e) ==
    TFSCommandResult(FALSE, <<>>, Some(StrOfException(e)),
                     IF e.cls \in {"Exception", "UnicodeDecodeError"} THEN 1 ELSE e.errno,
                     Join(argv))

ExceptionResult_ArgsOnly(argv, e) ==
    TFSCommandResult(FALSE, <<>>, Some(StrOfException(e)), -1, Join(Tail(argv)))

\* the result built by the `except Exception as e` handler
ExceptionResult(argv, e) ==
    TFSCommandResult(FALSE, <<>>, Some(StrOfException(e)), -1, Join(argv))

(***************************************************************************)
(* get_workspace_info: scraping of the "workfold /collection" output       *)
(***************************************************************************)
\* the characters str.strip() removes
Whitespace == {" ", "\t", "\n", "\r", "\f"}

RECURSIVE LStrip(_)
LStrip(s) == IF s # <<>> /\ Head(s) \in Whitespace THEN LStrip(Tail(s)) ELSE s

RECURSIVE RStrip(_)
RStrip(s) ==
    IF s # <<>> /\ s[Len(s)] \in Whitespace THEN RStrip(SubSeq(s, 1, Len(s) - 1)) ELSE s

\* s.strip()
Strip(s) == RStrip(LStrip(s))

\* s.split(sep) for a one-character sep; done are the finished fields and
\* cur the field being read
RECURSIVE SplitFrom(_, _, _, _)
SplitFrom(s, sep, done, cur) ==
    IF s = <<>> THEN Append(done, cur)
    ELSE IF Head(s) = sep THEN SplitFrom(Tail(s), sep, Append(done, cur), <<>>)
    ELSE SplitFrom(Tail(s), sep, done, Append(cur, Head(s)))

Split(s, sep) == SplitFrom(s, sep, <<>>, <<>>)

\* `sub in line`
Contains(line, sub) ==
    \E i \in 1..(Len(line) - Len(sub) + 1) : SubSeq(line, i, i + Len(sub) - 1) = sub

\* next((line for line in lines if sub in line), "")
RECURSIVE FirstLineWith(_, _)
FirstLineWith(lines, sub) ==
    IF lines = <<>> THEN <<>>
    ELSE IF Contains(Head(lines), sub) THEN Head(lines)
    ELSE FirstLineWith(Tail(lines), sub)

\* faulty variant of FieldOf: the text between the first and the second ":"
FieldOf_SecondPart(line) ==
    IF line # <<>>
    THEN LET parts == Split(line, ":") IN Strip(parts[IF Len(parts) > 1 THEN 2 ELSE 1])
    ELSE <<"U", "n", "k", "n", "o", "w", "n">>

\* line.split(":")[-1].strip() if line else "Unknown"
FieldOf(line) ==
    IF line # <<>>
    THEN LET parts == Split(line, ":") IN Strip(parts[Len(parts)])
    ELSE <<"U", "n", "k", "n", "o", "w", "n">>

TFSWorkspaceInfo(name, owner, computer, comment, collection, location) ==
    [name |-> name, owner |-> owner, computer |-> computer, comment |-> comment,
     collection |-> collection, location |-> location]

\* the record built from the command's output; computername is
\* os.environ.get("COMPUTERNAME")
WorkspaceInfoOf(output, computername) ==
    LET lines == Split(Strip(output), "\n")
        workspace_line == FirstLineWith(lines, <<"W", "o", "r", "k", "s", "p", "a", "c", "e", ":">>)
        owner_line == FirstLineWith(lines, <<"O", "w", "n", "e", "r", ":">>)
    IN  TFSWorkspaceInfo(FieldOf(workspace_line),
                         FieldOf(owner_line),
                         IF computername.some THEN computername.val ELSE <<"U", "n", "k", "n", "o", "w", "n">>,
                         None,
                         <<"U", "n", "k", "n", "o", "w", "n">>,
                         <<"L", "o", "c", "a", "l">>)

\* str() of an Optional[str] inside an f-string
StrOfOptional(o) == IF o.some THEN o.val ELSE <<"N", "o", "n", "e">>

\* Exception(f"Failed to get workspace info: {result.error}")
WorkspaceInfoFailure(res) ==
    PlainException(<<<<"F", "a", "i", "l", "e", "d", " ", "t", "o", " ", "g", "e", "t", " ", "w", "o", "r", "k", "s", "p", "a", "c", "e", " ", "i", "n", "f", "o", ":", " ">> \o StrOfOptional(res.error)>>)

(***************************************************************************)
(* The command translators: options -> argument vector                     *)
(***************************************************************************)
\* truth value of an Optional[int]: None and 0 are falsy
TruthyInt(o) == o.some /\ o.val # 0

\* ["/flag:" + str(id) for id in ids], in order
RECURSIVE WorkItemFlags(_, _)
WorkItemFlags(flag, ids) ==
    IF ids = <<>> THEN <<>>
    ELSE <<flag \o IntToText(Head(ids))>> \o WorkItemFlags(flag, Tail(ids))

\* faulty variant of checkout_command: /type: is emitted before /recursive
checkout_command_TypeFirst(options) ==
    <<<<"c", "h", "e", "c", "k", "o", "u", "t">>>>
    \o (IF Truthy(options.lock_type) THEN <<<<"/", "l", "o", "c", "k", ":">> \o options.lock_type.val>> ELSE <<>>)
    \o (IF Truthy(options.type) THEN <<<<"/", "t", "y", "p", "e", ":">> \o options.type.val>> ELSE <<>>)
    \o (IF options.recursive THEN <<<<"/", "r", "e", "c", "u", "r", "s", "i", "v", "e">>>> ELSE <<>>)
    \o options.paths

checkout_command(options) ==
    <<<<"c", "h", "e", "c", "k", "o", "u", "t">>>>
    \o (IF Truthy(options.lock_type) THEN <<<<"/", "l", "o", "c", "k", ":">> \o options.lock_type.val>> ELSE <<>>)
    \o (IF options.recursive THEN <<<<"/", "r", "e", "c", "u", "r", "s", "i", "v", "e">>>> ELSE <<>>)
    \o (IF Truthy(options.type) THEN <<<<"/", "t", "y", "p", "e", ":">> \o options.type.val>> ELSE <<>>)
    \o options.paths

\* faulty variant of checkin_command: only the first work item of each list
\* gets a flag
checkin_command_FirstItem(options) ==
    <<<<"c", "h", "e", "c", "k", "i", "n">>>>
    \o <<<<"/", "c", "o", "m", "m", "e", "n", "t", ":">> \o options.comment>>
    \o (IF options.recursive THEN <<<<"/", "r", "e", "c", "u", "r", "s", "i", "v", "e">>>> ELSE <<>>)
    \o (IF Truthy(options.associate)
        THEN WorkItemFlags(<<"/", "a", "s", "s", "o", "c", "i", "a", "t", "e", ":">>, <<Head(options.associate.val)>>) ELSE <<>>)
    \o (IF Truthy(options.resolve)
        THEN WorkItemFlags(<<"/", "r", "e", "s", "o", "l", "v", "e", ":">>, <<Head(options.resolve.val)>>) ELSE <<>>)
    \o (IF Truthy(options.override) THEN <<<<"/", "o", "v", "e", "r", "r", "i", "d", "e", ":">> \o options.override.val>> ELSE <<>>)
    \o options.paths

checkin_command(options) ==
    <<<<"c", "h", "e", "c", "k", "i", "n">>>>
    \o <<<<"/", "c", "o", "m", "m", "e", "n", "t", ":">> \o options.comment>>
    \o (IF options.recursive THEN <<<<"/", "r", "e", "c", "u", "r", "s", "i", "v", "e">>>> ELSE <<>>)
    \o (IF Truthy(options.associate)
        THEN WorkItemFlags(<<"/", "a", "s", "s", "o", "c", "i", "a", "t", "e", ":">>, options.associate.val) ELSE <<>>)
    \o (IF Truthy(options.resolve)
        THEN WorkItemFlags(<<"/", "r", "e", "s", "o", "l", "v", "e", ":">>, options.resolve.val) ELSE <<>>)
    \o (IF Truthy(options.override) THEN <<<<"/", "o", "v", "e", "r", "r", "i", "d", "e", ":">> \o options.override.val>> ELSE <<>>)
    \o options.paths

add_command(paths, recursive) ==
    <<<<"a", "d", "d">>>>
    \o (IF recursive THEN <<<<"/", "r", "e", "c", "u", "r", "s", "i", "v", "e">>>> ELSE <<>>)
    \o paths

\* faulty variant of delete_command: the base token copied from add_files
delete_command_AddToken(paths, recursive) ==
    <<<<"a", "d", "d">>>>
    \o (IF recursive THEN <<<<"/", "r", "e", "c", "u", "r", "s", "i", "v", "e">>>> ELSE <<>>)
    \o paths

delete_command(paths, recursive) ==
    <<<<"d", "e", "l", "e", "t", "e">>>>
    \o (IF recursive THEN <<<<"/", "r", "e", "c", "u", "r", "s", "i", "v", "e">>>> ELSE <<>>)
    \o paths

rename_command(old_path, new_path) == <<<<"r", "e", "n", "a", "m", "e">>, old_path, new_path>>

undo_command(paths, recursive) ==
    <<<<"u", "n", "d", "o">>>>
    \o (IF recursive THEN <<<<"/", "r", "e", "c", "u", "r", "s", "i", "v", "e">>>> ELSE <<>>)
    \o paths

\* faulty variant of status_command: `if paths is not None`
status_command_NotNone(paths, recursive) ==
    <<<<"s", "t", "a", "t", "u", "s">>>>
    \o (IF recursive THEN <<<<"/", "r", "e", "c", "u", "r", "s", "i", "v", "e">>>> ELSE <<>>)
    \o (IF paths.some THEN paths.val ELSE <<<<".">>>>)

status_command(paths, recursive) ==
    <<<<"s", "t", "a", "t", "u", "s">>>>
    \o (IF recursive THEN <<<<"/", "r", "e", "c", "u", "r", "s", "i", "v", "e">>>> ELSE <<>>)
    \o (IF Truthy(paths) THEN paths.val ELSE <<<<".">>>>)

\* faulty variant of get_command: /force is emitted before /recursive
get_command_ForceFirst(paths, recursive, force) ==
    <<<<"g", "e", "t">>>>
    \o (IF force THEN <<<<"/", "f", "o", "r", "c", "e">>>> ELSE <<>>)
    \o (IF recursive THEN <<<<"/", "r", "e", "c", "u", "r", "s", "i", "v", "e">>>> ELSE <<>>)
    \o (IF Truthy(paths) THEN paths.val ELSE <<<<".">>>>)

get_command(paths, recursive, force) ==
    <<<<"g", "e", "t">>>>
    \o (IF recursive THEN <<<<"/", "r", "e", "c", "u", "r", "s", "i", "v", "e">>>> ELSE <<>>)
    \o (IF force THEN <<<<"/", "f", "o", "r", "c", "e">>>> ELSE <<>>)
    \o (IF Truthy(paths) THEN paths.val ELSE <<<<".">>>>)

\* faulty variant of branch_command: the version flag precedes the two paths
branch_command_VersionFirst(branch_info) ==
    <<<<"b", "r", "a", "n", "c", "h">>>>
    \o (IF Truthy(branch_info.version) THEN <<<<"/", "v", "e", "r", "s", "i", "o", "n", ":">> \o branch_info.version.val>> ELSE <<>>)
    \o <<branch_info.source_path, branch_info.target_path>>

branch_command(branch_info) ==
    <<<<"b", "r", "a", "n", "c", "h">>, branch_info.source_path, branch_info.target_path>>
    \o (IF Truthy(branch_info.version) THEN <<<<"/", "v", "e", "r", "s", "i", "o", "n", ":">> \o branch_info.version.val>> ELSE <<>>)

\* faulty variant of merge_command: /baseless is emitted for the discard option
merge_command_DiscardAsBaseless(options) ==
    <<<<"m", "e", "r", "g", "e">>, options.source, options.target>>
    \o (IF Truthy(options.version) THEN <<<<"/", "v", "e", "r", "s", "i", "o", "n", ":">> \o options.version.val>> ELSE <<>>)
    \o (IF options.recursive THEN <<<<"/", "r", "e", "c", "u", "r", "s", "i", "v", "e">>>> ELSE <<>>)
    \o (IF options.discard THEN <<<<"/", "b", "a", "s", "e", "l", "e", "s", "s">>>> ELSE <<>>)
    \o (IF options.baseless THEN <<<<"/", "b", "a", "s", "e", "l", "e", "s", "s">>>> ELSE <<>>)

merge_command(options) ==
    <<<<"m", "e", "r", "g", "e">>, options.source, options.target>>
    \o (IF Truthy(options.version) THEN <<<<"/", "v", "e", "r", "s", "i", "o", "n", ":">> \o options.version.val>> ELSE <<>>)
    \o (IF options.recursive THEN <<<<"/", "r", "e", "c", "u", "r", "s", "i", "v", "e">>>> ELSE <<>>)
    \o (IF options.discard THEN <<<<"/", "d", "i", "s", "c", "a", "r", "d">>>> ELSE <<>>)
    \o (IF options.baseless THEN <<<<"/", "b", "a", "s", "e", "l", "e", "s", "s">>>> ELSE <<>>)

history_command(options) ==
    <<<<"h", "i", "s", "t", "o", "r", "y">>, options.path>>
    \o (IF options.recursive THEN <<<<"/", "r", "e", "c", "u", "r", "s", "i", "v", "e">>>> ELSE <<>>)
    \o (IF TruthyInt(options.stopafter)
        THEN <<<<"/", "s", "t", "o", "p", "a", "f", "t", "e", "r", ":">> \o IntToText(options.stopafter.val)>> ELSE <<>>)
    \o (IF Truthy(options.version) THEN <<<<"/", "v", "e", "r", "s", "i", "o", "n", ":">> \o options.version.val>> ELSE <<>>)
    \o (IF Truthy(options.user) THEN <<<<"/", "u", "s", "e", "r", ":">> \o options.user.val>> ELSE <<>>)

workfold_command == <<<<"w", "o", "r", "k", "f", "o", "l", "d">>, <<"/", "c", "o", "l", "l", "e", "c", "t", "i", "o", "n">>>>

(***************************************************************************)
(* _execute_command, step by step                                          *)
(***************************************************************************)
\* entry: cmd and work_dir are computed, nothing is spawned yet
Enter(who, o, args, dir) ==
    /\ pc = "idle"
    /\ caller' = who
    /\ opts' = o
    /\ command' = args
    /\ working_dir' = dir
    /\ cmd' = CmdOf(client, args)
    /\ work_dir' = WorkDirOf(client, dir)
    /\ proc' = NoProcess
    /\ spawns' = 0
    /\ caught' = NoException
    /\ result' = NoResult
    /\ ret' = NoReturn
    /\ pc' = "spawning"
    /\ UNCHANGED <<server, calls, client>>

\* await asyncio.create_subprocess_exec(*cmd, cwd=work_dir, ...) returns
SpawnOk ==
    /\ pc = "spawning"
    /\ spawns' = spawns + 1
    /\ proc' = [NoProcess EXCEPT !.state = "running", !.argv = cmd, !.cwd = work_dir,
                                 !.pipes = "open"]
    /\ pc' = "communicating"
    /\ UNCHANGED <<server, calls, client, caller, opts, command, working_dir, cmd, work_dir, caught, result, ret>>

\* faulty variant of SpawnRaises: a failed spawn is tried once more
SpawnRaises_Retry ==
    /\ pc = "spawning"
    /\ \E e \in LaunchExceptions(cmd, work_dir) :
          /\ caught' = e
          /\ result' = ExceptionResult(cmd, e)
    /\ spawns' = spawns + 1
    /\ pc' = IF spawns = 0 THEN "spawning" ELSE "done"
    /\ UNCHANGED <<server, calls, client, caller, opts, command, working_dir, cmd, work_dir, proc, ret>>

\* create_subprocess_exec raises: the handler builds the result
SpawnRaises ==
    /\ pc = "spawning"
    /\ \E e \in LaunchExceptions(cmd, work_dir) :
          /\ caught' = e
          /\ result' = ExceptionResult(cmd, e)
    /\ spawns' = spawns + 1
    /\ pc' = "done"
    /\ UNCHANGED <<server, calls, client, caller, opts, command, working_dir, cmd, work_dir, proc, ret>>

\* the child writes its output and exits
ProcessExitWith(outputs, codes) ==
    /\ proc.state = "running"
    /\ \E out \in outputs, err \in outputs, code \in codes :
          proc' = [proc EXCEPT !.state = "exited", !.stdout = out,
                               !.stderr = err, !.returncode = code]
    /\ UNCHANGED <<server, calls, client, pc, caller, opts, command, working_dir, cmd, work_dir,
                   spawns, caught, result, ret>>

ProcessExit == ProcessExitWith(ByteStrings, ExitCodes)

\* the same step with three sample streams (empty, decodable, undecodable)
\* and two exit codes
ProcessExitBrief == ProcessExitWith({<<>>, <<65>>, <<169>>}, {0, 1})

\* process.communicate() returns, the streams are decoded, the result is built
CommunicateReturns ==
    /\ pc = "communicating"
    /\ proc.state = "exited"
    /\ LET out == DecodeOrEmpty(proc.stdout)
           err == DecodeOrEmpty(proc.stderr)
       IN  IF ~out.ok
           THEN /\ caught' = out.exc
                /\ result' = ExceptionResult(cmd, out.exc)
           ELSE IF ~err.ok
           THEN /\ caught' = err.exc
                /\ result' = ExceptionResult(cmd, err.exc)
           ELSE /\ caught' = NoException
                /\ result' = CompletedResult(cmd, out.text, err.text, proc.returncode)
    /\ proc' = [proc EXCEPT !.pipes = "closed"]
    /\ pc' = "done"
    /\ UNCHANGED <<server, calls, client, caller, opts, command, working_dir, cmd, work_dir, spawns, ret>>

\* the call has ended and its frame is gone
FrameGone ==
    /\ pc' = "idle"
    /\ caller' = "none"
    /\ opts' = <<>>
    /\ command' = <<>>
    /\ working_dir' = None
    /\ cmd' = <<>>
    /\ work_dir' = <<>>
    /\ proc' = NoProcess
    /\ spawns' = 0
    /\ caught' = NoException
    /\ result' = NoResult
    /\ ret' = NoReturn
    /\ UNCHANGED <<server, calls, client>>

\* a direct caller of _execute_command takes the result
Return ==
    /\ pc = "done"
    /\ caller = "_execute_command"
    /\ FrameGone

(***************************************************************************)
(* TFSMcpServer and the tool and resource calls in flight                  *)
(***************************************************************************)
\* most calls in flight at a time
MaxCalls == 2

CallIds == 1..MaxCalls

\* no server has been constructed
NoServer == [constructed |-> FALSE]

\* TFSMcpServer.__init__
TFSMcpServer(tf_exe_path, default_working_directory) ==
    [constructed |-> TRUE, tfs_client |-> TFSClient(tf_exe_path, default_working_directory)]

NoClient == [tf_exe_path |-> <<>>, working_directory |-> <<>>]

\* the frame of one call: the tool or resource, its arguments, the local
\* `client`, the client operations invoked so far, then the locals of
\* _execute_command and the value handed back
NoCall ==
    [pc |-> "idle", tool |-> "none", request |-> <<>>, client |-> NoClient,
     invoked |-> <<>>, command |-> <<>>, cmd |-> <<>>, work_dir |-> <<>>,
     proc |-> NoProcess, caught |-> NoException, result |-> NoResult,
     response |-> <<>>]

NoCalls == [i \in CallIds |-> NoCall]

(***************************************************************************)
(* Direct calls of _execute_command (as the unit tests make them)          *)
(***************************************************************************)
ExePaths == {None, Some(<<"t", "f", ".", "e", "x", "e">>)}

Directories == {None, Some(<<>>), Some(<<"/", "t", "e", "s", "t", "/", "d", "i", "r">>)}

DirectCommands ==
    { <<>>,
      << <<"s", "t", "a", "t", "u", "s">>, <<".">> >>,
      << <<"a", " ", "b">> >> }

Init ==
    /\ server = NoServer
    /\ calls = NoCalls
    /\ client \in {TFSClient(p, w) : p \in ExePaths, w \in Directories}
    /\ pc = "idle"
    /\ caller = "none"
    /\ opts = <<>>
    /\ command = <<>>
    /\ working_dir = None
    /\ cmd = <<>>
    /\ work_dir = <<>>
    /\ proc = NoProcess
    /\ spawns = 0
    /\ caught = NoException
    /\ result = NoResult
    /\ ret = NoReturn

execute_command ==
    /\ pc = "idle"
    /\ \E args \in DirectCommands, dir \in Directories :
           Enter("_execute_command", <<>>, args, dir)

Next ==
    \/ execute_command
    \/ SpawnOk
    \/ SpawnRaises
    \/ ProcessExit
    \/ CommunicateReturns
    \/ Return

Spec == Init /\ [][Next]_vars

(***************************************************************************)
(* Cancellation of the calling task                                        *)
(***************************************************************************)
\* the task is cancelled while `await process.communicate()` waits for the
\* running child: CancelledError is a BaseException, `except Exception` does
\* not catch it and no finally block or context manager touches the process
CancelWhileWaiting ==
    /\ pc = "communicating"
    /\ proc.state = "running"
    /\ caught' = [cls |-> "CancelledError"]
    /\ pc' = "cancelled"
    /\ UNCHANGED <<server, calls, client, caller, opts, command, working_dir, cmd, work_dir,
                   proc, spawns, result, ret>>

\* the CancelledError has left _execute_command
CancelledEnds ==
    /\ pc = "cancelled"
    /\ FrameGone

NextCancel ==
    \/ Next
    \/ CancelWhileWaiting
    \/ CancelledEnds

SpecCancel == Init /\ [][NextCancel]_vars

(***************************************************************************)
(* The client operations                                                   *)
(***************************************************************************)
\* longest list of paths an operation is given
MaxPaths == 2

PathNames == {<<"a">>, <<"b", " ", "c">>}

PathLists == SeqsUpTo(PathNames, MaxPaths)

OptionalTexts(S) == {None, Some(<<>>)} \cup {Some(s) : s \in S}

WorkItemLists == {None, Some(<<>>), Some(<<123>>), Some(<<123, 7>>)}

CheckoutOptions ==
    [paths : PathLists, lock_type : OptionalTexts({<<"c", "h", "e", "c", "k", "o", "u", "t">>}),
     recursive : BOOLEAN, type : OptionalTexts({<<"b", "i", "n">>})]

CheckinOptions ==
    [paths : PathLists, comment : {<<>>, <<"f", "i", "x", " ", "b", "u", "g">>}, recursive : BOOLEAN,
     associate : WorkItemLists, resolve : {None, Some(<<>>), Some(<<7>>)},
     override : OptionalTexts({<<"o", "k">>})]

BranchInfos ==
    [source_path : PathNames, target_path : PathNames, version : OptionalTexts({<<"C", "5">>})]

MergeOptions ==
    [source : PathNames, target : PathNames, version : OptionalTexts({<<"C", "5">>}),
     recursive : BOOLEAN, discard : BOOLEAN, baseless : BOOLEAN]

HistoryOptions ==
    [path : PathNames, recursive : BOOLEAN, stopafter : {None, Some(0), Some(10)},
     version : OptionalTexts({<<"C", "5">>}), user : OptionalTexts({<<"a", "l">>})]

OptionalPathLists == {None} \cup {Some(l) : l \in PathLists}

checkout_files ==
    /\ pc = "idle"
    /\ \E options \in CheckoutOptions :
           Enter("checkout_files", options, checkout_command(options), None)

checkin_files ==
    /\ pc = "idle"
    /\ \E options \in CheckinOptions :
           Enter("checkin_files", options, checkin_command(options), None)

add_files ==
    /\ pc = "idle"
    /\ \E paths \in PathLists, recursive \in BOOLEAN :
           Enter("add_files", [paths |-> paths, recursive |-> recursive],
                 add_command(paths, recursive), None)

delete_files ==
    /\ pc = "idle"
    /\ \E paths \in PathLists, recursive \in BOOLEAN :
           Enter("delete_files", [paths |-> paths, recursive |-> recursive],
                 delete_command(paths, recursive), None)

rename_file ==
    /\ pc = "idle"
    /\ \E old_path \in PathNames, new_path \in PathNames :
           Enter("rename_file", [old_path |-> old_path, new_path |-> new_path],
                 rename_command(old_path, new_path), None)

undo_changes ==
    /\ pc = "idle"
    /\ \E paths \in PathLists, recursive \in BOOLEAN :
           Enter("undo_changes", [paths |-> paths, recursive |-> recursive],
                 undo_command(paths, recursive), None)

get_status ==
    /\ pc = "idle"
    /\ \E paths \in OptionalPathLists, recursive \in BOOLEAN :
           Enter("get_status", [paths |-> paths, recursive |-> recursive],
                 status_command(paths, recursive), None)

get_latest ==
    /\ pc = "idle"
    /\ \E paths \in OptionalPathLists, recursive \in BOOLEAN, force \in BOOLEAN :
           Enter("get_latest", [paths |-> paths, recursive |-> recursive, force |-> force],
                 get_command(paths, recursive, force), None)

create_branch ==
    /\ pc = "idle"
    /\ \E branch_info \in BranchInfos :
           Enter("create_branch", branch_info, branch_command(branch_info), None)

merge_files ==
    /\ pc = "idle"
    /\ \E options \in MergeOptions :
           Enter("merge_files", options, merge_command(options), None)

get_history ==
    /\ pc = "idle"
    /\ \E options \in HistoryOptions :
           Enter("get_history", options, history_command(options), None)

get_workspace_info == Enter("get_workspace_info", <<>>, workfold_command, None)

\* the operations that return the executor's result as it is
ResultOperations ==
    {"checkout_files", "checkin_files", "add_files", "delete_files", "rename_file",
     "undo_changes", "get_status", "get_latest", "create_branch", "merge_files",
     "get_history"}

\* `return await self._execute_command(command)`
OperationReturns ==
    /\ pc = "done"
    /\ caller \in ResultOperations
    /\ ret' = [kind |-> "result", value |-> result]
    /\ pc' = "returned"
    /\ UNCHANGED <<server, calls, client, caller, opts, command, working_dir, cmd, work_dir,
                   proc, spawns, caught, result>>

\* get_workspace_info: `if not result.success: raise Exception(...)`
WorkspaceInfoRaises ==
    /\ pc = "done"
    /\ caller = "get_workspace_info"
    /\ ~result.success
    /\ ret' = [kind |-> "raise", value |-> WorkspaceInfoFailure(result)]
    /\ pc' = "raised"
    /\ UNCHANGED <<server, calls, client, caller, opts, command, working_dir, cmd, work_dir,
                   proc, spawns, caught, result>>

\* faulty variant of WorkspaceInfoReturns: the success test is missing, a
\* failed command yields a record of defaults
WorkspaceInfoReturns_Always ==
    /\ pc = "done"
    /\ caller = "get_workspace_info"
    /\ \E computername \in {None, Some(<<"P", "C">>)} :
          ret' = [kind |-> "info", value |-> WorkspaceInfoOf(result.output, computername)]
    /\ pc' = "returned"
    /\ UNCHANGED <<server, calls, client, caller, opts, command, working_dir, cmd, work_dir,
                   proc, spawns, caught, result>>

\* get_workspace_info: the output is scraped into a TFSWorkspaceInfo
WorkspaceInfoReturns ==
    /\ pc = "done"
    /\ caller = "get_workspace_info"
    /\ result.success
    /\ \E computername \in {None, Some(<<"P", "C">>)} :
          ret' = [kind |-> "info", value |-> WorkspaceInfoOf(result.output, computername)]
    /\ pc' = "returned"
    /\ UNCHANGED <<server, calls, client, caller, opts, command, working_dir, cmd, work_dir,
                   proc, spawns, caught, result>>

\* the operation's caller has its return value or exception
OperationEnds ==
    /\ pc \in {"returned", "raised"}
    /\ FrameGone

NextOps ==
    \/ checkout_files
    \/ checkin_files
    \/ add_files
    \/ delete_files
    \/ rename_file
    \/ undo_changes
    \/ get_status
    \/ get_latest
    \/ create_branch
    \/ merge_files
    \/ get_history
    \/ get_workspace_info
    \/ SpawnOk
    \/ SpawnRaises
    \/ ProcessExitBrief
    \/ CommunicateReturns
    \/ OperationReturns
    \/ WorkspaceInfoRaises
    \/ WorkspaceInfoReturns
    \/ OperationEnds

\* the client of the unit tests: TFSClient("tf.exe", "/test/dir")
InitOps ==
    /\ Init
    /\ client = TFSClient(Some(<<"t", "f", ".", "e", "x", "e">>),
                          Some(<<"/", "t", "e", "s", "t", "/", "d", "i", "r">>))

SpecOps == InitOps /\ [][NextOps]_vars

(***************************************************************************)
(* The workspace lookup on "workfold /collection" output                   *)
(***************************************************************************)
\* most lines in the output of the child
MaxLines == 2

\* lines tf prints, with and without the two labels
WorkfoldLines ==
    { <<>>,
      <<"W", "o", "r", "k", "s", "p", "a", "c", "e", ":", " ", "W", "S", "1">>,
      <<"O", "w", "n", "e", "r", ":", " ", "a", "l">>,
      <<" ", "W", "o", "r", "k", "s", "p", "a", "c", "e", " ", ":", " ", "x">>,
      <<"\t", "W", "o", "r", "k", "s", "p", "a", "c", "e", ":", " ", " ", "a", " ", "b", " ", "\r">>,
      <<"O", "w", "n", "e", "r", ":", " ", "d", ":", "e">>,
      <<"W", "o", "r", "k", "s", "p", "a", "c", "e", ":", " ", "U", "n", "k", "n", "o", "w", "n">>,
      <<"O", "w", "n", "e", "r", ":">>,
      <<"C", "o", "l", "l", "e", "c", "t", "i", "o", "n", ":", " ", "h", "t", "t", "p", ":", "/", "/", "x">>,
      <<"W", "o", "r", "k", "s", "p", "a", "c", "e", ":", " ", "w", " ", "O", "w", "n", "e", "r", ":", " ", "o">> }

\* ord(c)
Ord(c) == CHOOSE cp \in DOMAIN Chr : Chr[cp] = c

\* the bytes tf writes for an ASCII text
AsciiBytes(text) == [i \in 1..Len(text) |-> Ord(text[i])]

\* the lines, each ended by a newline but the last
RECURSIVE Unlines(_)
Unlines(lines) ==
    IF lines = <<>> THEN <<>>
    ELSE IF Len(lines) = 1 THEN lines[1]
    ELSE lines[1] \o <<"\n">> \o Unlines(Tail(lines))

WorkfoldOutputs == {AsciiBytes(Unlines(ls)) : ls \in SeqsUpTo(WorkfoldLines, MaxLines)}

\* the child of "workfold /collection" writes its lines and exits
WorkfoldExit ==
    /\ proc.state = "running"
    /\ \E out \in WorkfoldOutputs, err \in {<<>>, <<65>>}, code \in {0, 1} :
          proc' = [proc EXCEPT !.state = "exited", !.stdout = out,
                               !.stderr = err, !.returncode = code]
    /\ UNCHANGED <<server, calls, client, pc, caller, opts, command, working_dir, cmd, work_dir,
                   spawns, caught, result, ret>>

NextWorkfold ==
    \/ get_workspace_info
    \/ SpawnOk
    \/ SpawnRaises
    \/ WorkfoldExit
    \/ CommunicateReturns
    \/ WorkspaceInfoRaises
    \/ WorkspaceInfoReturns
    \/ OperationEnds

SpecWorkfold == InitOps /\ [][NextWorkfold]_vars

(***************************************************************************)
(* The tools and resources of TFSMcpServer.  A call runs in steps: up to   *)
(* the spawn of the child, the spawn, the exit of the child, the return of *)
(* communicate() and of the client operation, the return of the tool.  The *)
(* ctx.info / ctx.error notifications carry no state and are left out.     *)
(***************************************************************************)
\* an argument the request leaves out is None; `value` is its default
ArgOr(arg, value) == IF arg.some THEN arg.val ELSE value

\* client = self.tfs_client
\* if working_directory: client = TFSClient(self.tfs_client.tf_exe_path, working_directory)
ClientFor(working_directory) ==
    IF Truthy(working_directory)
    THEN TFSClient(Some(server.tfs_client.tf_exe_path), working_directory)
    ELSE server.tfs_client

\* the call invokes the operation `op` of the client `self` with `args`; the
\* operation builds its tokens and enters _execute_command(tokens)
Invoke(i, tool, request, self, op, args, tokens) ==
    /\ calls[i].pc = "idle"
    /\ calls' = [calls EXCEPT ![i] =
                    [NoCall EXCEPT !.pc = "spawning",
                                   !.tool = tool,
                                   !.request = request,
                                   !.client = self,
                                   !.invoked = <<[op |-> op, args |-> args]>>,
                                   !.command = tokens,
                                   !.cmd = CmdOf(self, tokens),
                                   !.work_dir = WorkDirOf(self, None)]]
    /\ UNCHANGED <<server, frame>>

\* faulty variant of CallSpawnOk: the command line is handed to a shell,
\* which splits it at the blanks
CallSpawnOk_Shell(i) ==
    /\ calls[i].pc = "spawning"
    /\ calls' = [calls EXCEPT ![i].proc =
                    [NoProcess EXCEPT !.state = "running",
                                      !.argv = Split(Join(calls[i].cmd), " "),
                                      !.cwd = calls[i].work_dir,
                                      !.pipes = "open"],
                              ![i].pc = "communicating"]
    /\ UNCHANGED <<server, frame>>

\* await asyncio.create_subprocess_exec(*cmd, cwd=work_dir, ...) returns
CallSpawnOk(i) ==
    /\ calls[i].pc = "spawning"
    /\ calls' = [calls EXCEPT ![i].proc =
                    [NoProcess EXCEPT !.state = "running",
                                      !.argv = calls[i].cmd,
                                      !.cwd = calls[i].work_dir,
                                      !.pipes = "open"],
                              ![i].pc = "communicating"]
    /\ UNCHANGED <<server, frame>>

\* create_subprocess_exec raises an exception of one of the classes
CallSpawnRaises(i, classes) ==
    /\ calls[i].pc = "spawning"
    /\ \E e \in LaunchExceptions(calls[i].cmd, calls[i].work_dir) :
          /\ e.cls \in classes
          /\ calls' = [calls EXCEPT ![i].caught = e,
                                    ![i].result = ExceptionResult(calls[i].cmd, e),
                                    ![i].pc = "done"]
    /\ UNCHANGED <<server, frame>>

\* the child of the call writes its output and exits
CallProcessExit(i, outcomes) ==
    /\ calls[i].proc.state = "running"
    /\ \E o \in outcomes :
          calls' = [calls EXCEPT ![i].proc.state = "exited",
                                 ![i].proc.stdout = o.stdout,
                                 ![i].proc.stderr = o.stderr,
                                 ![i].proc.returncode = o.returncode]
    /\ UNCHANGED <<server, frame>>

\* faulty variant of CallCommunicateReturns: the streams are read from the
\* child that was started last
CallCommunicateReturns_LastChild(i) ==
    /\ calls[i].pc = "communicating"
    /\ calls[i].proc.state = "exited"
    /\ LET started == {j \in CallIds : calls[j].proc.state = "exited"}
           last == CHOOSE j \in started : \A k \in started : k <= j
           out == DecodeOrEmpty(calls[last].proc.stdout)
           err == DecodeOrEmpty(calls[last].proc.stderr)
       IN  calls' = [calls EXCEPT
                ![i].caught = IF ~out.ok THEN out.exc ELSE IF ~err.ok THEN err.exc
                              ELSE NoException,
                ![i].result = IF ~out.ok THEN ExceptionResult(calls[i].cmd, out.exc)
                              ELSE IF ~err.ok THEN ExceptionResult(calls[i].cmd, err.exc)
                              ELSE CompletedResult(calls[i].cmd, out.text, err.text,
                                                   calls[last].proc.returncode),
                ![i].proc.pipes = "closed",
                ![i].pc = "done"]
    /\ UNCHANGED <<server, frame>>

\* process.communicate() returns, the streams are decoded, the result is
\* built and returned through the client operation
CallCommunicateReturns(i) ==
    /\ calls[i].pc = "communicating"
    /\ calls[i].proc.state = "exited"
    /\ LET out == DecodeOrEmpty(calls[i].proc.stdout)
           err == DecodeOrEmpty(calls[i].proc.stderr)
       IN  calls' = [calls EXCEPT
                ![i].caught = IF ~out.ok THEN out.exc ELSE IF ~err.ok THEN err.exc
                              ELSE NoException,
                ![i].result = IF ~out.ok THEN ExceptionResult(calls[i].cmd, out.exc)
                              ELSE IF ~err.ok THEN ExceptionResult(calls[i].cmd, err.exc)
                              ELSE CompletedResult(calls[i].cmd, out.text, err.text,
                                                   calls[i].proc.returncode),
                ![i].proc.pipes = "closed",
                ![i].pc = "done"]
    /\ UNCHANGED <<server, frame>>

\* faulty variant of tf_checkout: the lock type is passed as the file type
tf_checkout_LockAsType(i, requests) ==
    /\ calls[i].pc = "idle"
    /\ \E r \in requests :
          LET options == [paths |-> r.paths, lock_type |-> r.lock_type,
                          recursive |-> ArgOr(r.recursive, FALSE), type |-> r.lock_type]
          IN  Invoke(i, "tf_checkout", r, ClientFor(r.working_directory),
                     "checkout_files", options, checkout_command(options))

tf_checkout(i, requests) ==
    /\ calls[i].pc = "idle"
    /\ \E r \in requests :
          LET options == [paths |-> r.paths, lock_type |-> r.lock_type,
                          recursive |-> ArgOr(r.recursive, FALSE), type |-> r.file_type]
          IN  Invoke(i, "tf_checkout", r, ClientFor(r.working_directory),
                     "checkout_files", options, checkout_command(options))

tf_checkin(i, requests) ==
    /\ calls[i].pc = "idle"
    /\ \E r \in requests :
          LET options == [paths |-> r.paths, comment |-> r.comment,
                          recursive |-> ArgOr(r.recursive, FALSE),
                          associate |-> r.associate, resolve |-> r.resolve,
                          override |-> r.override_reason]
          IN  Invoke(i, "tf_checkin", r, ClientFor(r.working_directory),
                     "checkin_files", options, checkin_command(options))

\* faulty variant of tf_add: the override is written into the shared client
tf_add_SetsSharedDirectory(i, requests) ==
    /\ calls[i].pc = "idle"
    /\ \E r \in requests :
          LET recursive == ArgOr(r.recursive, FALSE)
              self == IF Truthy(r.working_directory)
                      THEN [server.tfs_client EXCEPT !.working_directory = r.working_directory.val]
                      ELSE server.tfs_client
          IN  /\ calls' = [calls EXCEPT ![i] =
                              [NoCall EXCEPT !.pc = "spawning",
                                             !.tool = "tf_add",
                                             !.request = r,
                                             !.client = self,
                                             !.invoked = <<[op |-> "add_files",
                                                            args |-> [paths |-> r.paths, recursive |-> recursive]]>>,
                                             !.command = add_command(r.paths, recursive),
                                             !.cmd = CmdOf(self, add_command(r.paths, recursive)),
                                             !.work_dir = WorkDirOf(self, None)]]
              /\ server' = [server EXCEPT !.tfs_client = self]
              /\ UNCHANGED frame

tf_add(i, requests) ==
    /\ calls[i].pc = "idle"
    /\ \E r \in requests :
          LET recursive == ArgOr(r.recursive, FALSE)
          IN  Invoke(i, "tf_add", r, ClientFor(r.working_directory), "add_files",
                     [paths |-> r.paths, recursive |-> recursive],
                     add_command(r.paths, recursive))

tf_delete(i, requests) ==
    /\ calls[i].pc = "idle"
    /\ \E r \in requests :
          LET recursive == ArgOr(r.recursive, FALSE)
          IN  Invoke(i, "tf_delete", r, ClientFor(r.working_directory), "delete_files",
                     [paths |-> r.paths, recursive |-> recursive],
                     delete_command(r.paths, recursive))

tf_rename(i, requests) ==
    /\ calls[i].pc = "idle"
    /\ \E r \in requests :
          Invoke(i, "tf_rename", r, ClientFor(r.working_directory), "rename_file",
                 [old_path |-> r.old_path, new_path |-> r.new_path],
                 rename_command(r.old_path, r.new_path))

tf_undo(i, requests) ==
    /\ calls[i].pc = "idle"
    /\ \E r \in requests :
          LET recursive == ArgOr(r.recursive, FALSE)
          IN  Invoke(i, "tf_undo", r, ClientFor(r.working_directory), "undo_changes",
                     [paths |-> r.paths, recursive |-> recursive],
                     undo_command(r.paths, recursive))

\* faulty variant of tf_status: the client made for the override is kept as
\* the shared client
tf_status_KeepsOverride(i, requests) ==
    /\ calls[i].pc = "idle"
    /\ \E r \in requests :
          LET recursive == ArgOr(r.recursive, FALSE)
              self == ClientFor(r.working_directory)
          IN  /\ calls' = [calls EXCEPT ![i] =
                              [NoCall EXCEPT !.pc = "spawning",
                                             !.tool = "tf_status",
                                             !.request = r,
                                             !.client = self,
                                             !.invoked = <<[op |-> "get_status",
                                                            args |-> [paths |-> r.paths, recursive |-> recursive]]>>,
                                             !.command = status_command(r.paths, recursive),
                                             !.cmd = CmdOf(self, status_command(r.paths, recursive)),
                                             !.work_dir = WorkDirOf(self, None)]]
              /\ server' = [server EXCEPT !.tfs_client = self]
              /\ UNCHANGED frame

tf_status(i, requests) ==
    /\ calls[i].pc = "idle"
    /\ \E r \in requests :
          LET recursive == ArgOr(r.recursive, FALSE)
          IN  Invoke(i, "tf_status", r, ClientFor(r.working_directory), "get_status",
                     [paths |-> r.paths, recursive |-> recursive],
                     status_command(r.paths, recursive))

tf_get_latest(i, requests) ==
    /\ calls[i].pc = "idle"
    /\ \E r \in requests :
          LET recursive == ArgOr(r.recursive, FALSE)
              force == ArgOr(r.force, FALSE)
          IN  Invoke(i, "tf_get_latest", r, ClientFor(r.working_directory), "get_latest",
                     [paths |-> r.paths, recursive |-> recursive, force |-> force],
                     get_command(r.paths, recursive, force))

tf_branch(i, requests) ==
    /\ calls[i].pc = "idle"
    /\ \E r \in requests :
          LET branch_info == [source_path |-> r.source_path, target_path |-> r.target_path,
                              version |-> r.version]
          IN  Invoke(i, "tf_branch", r, server.tfs_client, "create_branch",
                     branch_info, branch_command(branch_info))

tf_merge(i, requests) ==
    /\ calls[i].pc = "idle"
    /\ \E r \in requests :
          LET options == [source |-> r.source, target |-> r.target, version |-> r.version,
                          recursive |-> ArgOr(r.recursive, FALSE),
                          discard |-> ArgOr(r.discard, FALSE),
                          baseless |-> ArgOr(r.baseless, FALSE)]
          IN  Invoke(i, "tf_merge", r, server.tfs_client, "merge_files",
                     options, merge_command(options))

tf_history(i, requests) ==
    /\ calls[i].pc = "idle"
    /\ \E r \in requests :
          LET options == [path |-> r.path, recursive |-> ArgOr(r.recursive, FALSE),
                          stopafter |-> r.stopafter, version |-> r.version, user |-> r.user]
          IN  Invoke(i, "tf_history", r, server.tfs_client, "get_history",
                     options, history_command(options))

\* the resource tfs://workspace/info
workspace_info_resource(i) ==
    Invoke(i, "get_workspace_info", <<>>, server.tfs_client, "get_workspace_info",
           <<>>, workfold_command)

\* the resource tfs://status/{path}
get_path_status(i, paths) ==
    /\ calls[i].pc = "idle"
    /\ \E path \in paths :
          Invoke(i, "get_path_status", [path |-> path], server.tfs_client, "get_status",
                 [paths |-> Some(<<path>>), recursive |-> FALSE],
                 status_command(Some(<<path>>), FALSE))

Tools ==
    {"tf_checkout", "tf_checkin", "tf_add", "tf_delete", "tf_rename", "tf_undo",
     "tf_status", "tf_get_latest", "tf_branch", "tf_merge", "tf_history"}

\* faulty variant of ToolReturns: the return code is forwarded as well
ToolReturns_ReturnCode(i) ==
    /\ calls[i].pc = "done"
    /\ calls[i].tool \in Tools
    /\ calls' = [calls EXCEPT
                    ![i].response = [success |-> calls[i].result.success,
                                     output |-> calls[i].result.output,
                                     error |-> calls[i].result.error,
                                     return_code |-> calls[i].result.return_code,
                                     command |-> calls[i].result.command],
                    ![i].pc = "responded"]
    /\ UNCHANGED <<server, frame>>

\* the dictionary a tool returns
ToolReturns(i) ==
    /\ calls[i].pc = "done"
    /\ calls[i].tool \in Tools
    /\ calls' = [calls EXCEPT
                    ![i].response = [success |-> calls[i].result.success,
                                     output |-> calls[i].result.output,
                                     error |-> calls[i].result.error,
                                     command |-> calls[i].result.command],
                    ![i].pc = "responded"]
    /\ UNCHANGED <<server, frame>>

\* the JSON object the status resource returns (get_status raises nothing,
\* the except branch is never taken)
StatusResourceReturns(i) ==
    /\ calls[i].pc = "done"
    /\ calls[i].tool = "get_path_status"
    /\ calls' = [calls EXCEPT
                    ![i].response = [path |-> calls[i].request.path,
                                     success |-> calls[i].result.success,
                                     output |-> calls[i].result.output,
                                     error |-> calls[i].result.error],
                    ![i].pc = "responded"]
    /\ UNCHANGED <<server, frame>>

\* the JSON object the workspace resource returns: the fields of the
\* TFSWorkspaceInfo, or the message of the exception get_workspace_info raised
WorkspaceResourceReturns(i) ==
    /\ calls[i].pc = "done"
    /\ calls[i].tool = "get_workspace_info"
    /\ \E computername \in {None, Some(<<"P", "C">>)} :
          calls' = [calls EXCEPT
                       ![i].response =
                           IF calls[i].result.success
                           THEN WorkspaceInfoOf(calls[i].result.output, computername)
                           ELSE [error |-> StrOfException(WorkspaceInfoFailure(calls[i].result))],
                       ![i].pc = "responded"]
    /\ UNCHANGED <<server, frame>>

\* the caller has the response, the frame of the call is gone
CallEnds(i) ==
    /\ calls[i].pc = "responded"
    /\ calls' = [calls EXCEPT ![i] = NoCall]
    /\ UNCHANGED <<server, frame>>

(***************************************************************************)
(* One call at a time, over all tools and resources                        *)
(***************************************************************************)
\* a plain path, one with a blank, one with quotes and shell metacharacters
ServerPaths == {<<"a">>, <<"b", " ", "c">>, <<"\"", "x", "\"", " ", "&", " ", "d", "e", "l", " ", "y", ";">>}

ServerPathLists == {<<<<"a">>>>, <<<<"b", " ", "c">>, <<"\"", "x", "\"", " ", "&", " ", "d", "e", "l", " ", "y", ";">>>>}

\* a flag the request leaves out, sets or clears
OptionalFlags == {None, Some(TRUE), Some(FALSE)}

\* the working_directory argument: left out, empty, given
Overrides == {None, Some(<<>>), Some(<<"/", "o">>)}

CheckoutRequests ==
    [paths : ServerPathLists, lock_type : {None, Some(<<"c", "h", "e", "c", "k", "o", "u", "t">>)},
     recursive : OptionalFlags, file_type : {None, Some(<<"b", "i", "n">>)},
     working_directory : Overrides]

CheckinRequests ==
    [paths : {<<<<"a">>>>}, comment : {<<"f", "i", "x", " ", "b", "u", "g">>}, recursive : OptionalFlags,
     associate : {None, Some(<<123, 7>>)}, resolve : {None, Some(<<7>>)},
     override_reason : {None, Some(<<"o", "k">>)}, working_directory : Overrides]

PathRequests ==
    [paths : ServerPathLists, recursive : OptionalFlags, working_directory : Overrides]

RenameRequests ==
    [old_path : ServerPaths, new_path : {<<"b", " ", "c">>}, working_directory : Overrides]

StatusRequests ==
    [paths : {None, Some(<<>>), Some(<<<<"b", " ", "c">>>>)}, recursive : OptionalFlags,
     working_directory : Overrides]

GetLatestRequests ==
    [paths : {None, Some(<<<<"a">>>>)}, recursive : OptionalFlags, force : OptionalFlags,
     working_directory : Overrides]

BranchRequests ==
    [source_path : {<<"a">>}, target_path : {<<"b", " ", "c">>}, version : {None, Some(<<"C", "5">>)}]

MergeRequests ==
    [source : {<<"b", " ", "c">>}, target : {<<"a">>}, version : {None, Some(<<"C", "5">>)},
     recursive : OptionalFlags, discard : OptionalFlags, baseless : {None, Some(TRUE)}]

HistoryRequests ==
    [path : {<<"b", " ", "c">>}, recursive : OptionalFlags, stopafter : {None, Some(0), Some(10)},
     version : {None, Some(<<"C", "5">>)}, user : {None, Some(<<"a", "l">>)}]

\* exit with output, exit with an error message, undecodable output, silent
\* failure
ServerOutcomes ==
    { [stdout |-> <<65>>, stderr |-> <<>>, returncode |-> 0],
      [stdout |-> <<>>, stderr |-> <<65>>, returncode |-> 1],
      [stdout |-> <<169>>, stderr |-> <<>>, returncode |-> 0],
      [stdout |-> <<>>, stderr |-> <<>>, returncode |-> 2] }

LaunchExceptionClasses ==
    {"FileNotFoundError", "PermissionError", "NotADirectoryError", "Exception"}

\* the server of the unit tests has no executable path and no directory; a
\* deployed one has both
InitServer ==
    /\ server \in {TFSMcpServer(None, None),
                   TFSMcpServer(Some(<<"t", "f", ".", "e", "x", "e">>), Some(<<"/", "t", "e", "s", "t", "/", "d", "i", "r">>))}
    /\ calls = NoCalls
    /\ client = server.tfs_client
    /\ pc = "idle"
    /\ caller = "none"
    /\ opts = <<>>
    /\ command = <<>>
    /\ working_dir = None
    /\ cmd = <<>>
    /\ work_dir = <<>>
    /\ proc = NoProcess
    /\ spawns = 0
    /\ caught = NoException
    /\ result = NoResult
    /\ ret = NoReturn

NextServer ==
    \/ tf_checkout(1, CheckoutRequests)
    \/ tf_checkin(1, CheckinRequests)
    \/ tf_add(1, PathRequests)
    \/ tf_delete(1, PathRequests)
    \/ tf_rename(1, RenameRequests)
    \/ tf_undo(1, PathRequests)
    \/ tf_status(1, StatusRequests)
    \/ tf_get_latest(1, GetLatestRequests)
    \/ tf_branch(1, BranchRequests)
    \/ tf_merge(1, MergeRequests)
    \/ tf_history(1, HistoryRequests)
    \/ workspace_info_resource(1)
    \/ get_path_status(1, ServerPaths)
    \/ CallSpawnOk(1)
    \/ CallSpawnRaises(1, LaunchExceptionClasses)
    \/ CallProcessExit(1, ServerOutcomes)
    \/ CallCommunicateReturns(1)
    \/ ToolReturns(1)
    \/ StatusResourceReturns(1)
    \/ WorkspaceResourceReturns(1)
    \/ CallEnds(1)

SpecServer == InitServer /\ [][NextServer]_vars

(***************************************************************************)
(* Calls in flight at the same time                                        *)
(***************************************************************************)
BriefAddRequests ==
    [paths : {<<<<"a">>>>}, recursive : {None}, working_directory : {None, Some(<<"/", "o">>)}]

BriefStatusRequests ==
    [paths : {None}, recursive : {None}, working_directory : {None, Some(<<"/", "p">>)}]

BriefBranchRequests == [source_path : {<<"a">>}, target_path : {<<"b", " ", "c">>}, version : {None}]

BriefMergeRequests ==
    [source : {<<"b", " ", "c">>}, target : {<<"a">>}, version : {None}, recursive : {None},
     discard : {None}, baseless : {None}]

BriefHistoryRequests ==
    [path : {<<"b", " ", "c">>}, recursive : {None}, stopafter : {None}, version : {None},
     user : {None}]

BriefOutcomes ==
    { [stdout |-> <<65>>, stderr |-> <<>>, returncode |-> 0],
      [stdout |-> <<>>, stderr |-> <<65, 65>>, returncode |-> 1] }

InitConcurrent ==
    /\ InitServer
    /\ server = TFSMcpServer(Some(<<"t", "f", ".", "e", "x", "e">>), Some(<<"/", "t", "e", "s", "t", "/", "d", "i", "r">>))

NextConcurrent ==
    \E i \in CallIds :
        \/ tf_add(i, BriefAddRequests)
        \/ tf_status(i, BriefStatusRequests)
        \/ tf_branch(i, BriefBranchRequests)
        \/ tf_merge(i, BriefMergeRequests)
        \/ tf_history(i, BriefHistoryRequests)
        \/ workspace_info_resource(i)
        \/ get_path_status(i, {<<"a">>})
        \/ CallSpawnOk(i)
        \/ CallSpawnRaises(i, {"FileNotFoundError"})
        \/ CallProcessExit(i, BriefOutcomes)
        \/ CallCommunicateReturns(i)
        \/ ToolReturns(i)
        \/ StatusResourceReturns(i)
        \/ WorkspaceResourceReturns(i)
        \/ CallEnds(i)

SpecConcurrent == InitConcurrent /\ [][NextConcurrent]_vars

(***************************************************************************)
(* Properties of _execute_command                                          *)
(***************************************************************************)
\* the child was started and has exited, and the call has built its result
Completed == pc = "done" /\ proc.state = "exited"

\* the child was never started, and the call has built its result
LaunchFailed == pc = "done" /\ proc.state = "none"

\* the text of a captured stream: its UTF-8 decoding, an undecodable byte
\* read as U+FFFD
RECURSIVE CapturedFrom(_, _)
CapturedFrom(bytes, i) ==
    IF i > Len(bytes) THEN <<>>
    ELSE LET b == bytes[i] IN
         IF b < 128 THEN <<Chr[b]>> \o CapturedFrom(bytes, i + 1)
         ELSE IF IsLead2(b) /\ i < Len(bytes) /\ IsContinuation(bytes[i + 1])
              THEN <<Chr[(b - 192) * 64 + (bytes[i + 1] - 128)]>> \o CapturedFrom(bytes, i + 2)
         ELSE <<"U+FFFD">> \o CapturedFrom(bytes, i + 1)

CapturedText(bytes) == CapturedFrom(bytes, 1)

\* tokens separated by single spaces, built from the last token backwards
RECURSIVE SpaceSeparated(_)
SpaceSeparated(tokens) ==
    IF tokens = <<>> THEN <<>>
    ELSE IF Len(tokens) = 1 THEN tokens[1]
    ELSE SpaceSeparated(SubSeq(tokens, 1, Len(tokens) - 1)) \o <<" ">> \o tokens[Len(tokens)]

\* C1: a child that exits with a non-zero code c yields success=false,
\* output = the captured stdout, error = the captured stderr, return_code = c.
C1_NonZeroExit ==
    (Completed /\ proc.returncode # 0) =>
        /\ result.success = FALSE
        /\ result.output = CapturedText(proc.stdout)
        /\ result.error = Some(CapturedText(proc.stderr))
        /\ result.return_code = proc.returncode

\* C2: a child that exits with code 0 yields success=true, output = the
\* captured stdout, error=None and return_code=0, whatever bytes it wrote.
C2_ZeroExit ==
    (Completed /\ proc.returncode = 0) =>
        /\ result.success = TRUE
        /\ result.output = CapturedText(proc.stdout)
        /\ result.error = None
        /\ result.return_code = 0

\* C3: when the spawn raises, the call still ends with a result, and that
\* result is success=false, output="", error = str(exception), return_code=-1.
C3_LaunchFailure ==
    /\ (proc.state = "none" /\ caught # NoException) => (pc = "done" /\ ret = NoReturn)
    /\ LaunchFailed =>
        /\ caught \in LaunchExceptions(cmd, work_dir)
        /\ result.success = FALSE
        /\ result.output = <<>>
        /\ result.error = Some(StrOfException(caught))
        /\ result.return_code = -1
        /\ (caught = PlainException(<< <<"P", "r", "o", "c", "e", "s", "s", " ", "e", "r", "r", "o", "r">> >>)
              => result.error.val = <<"P", "r", "o", "c", "e", "s", "s", " ", "e", "r", "r", "o", "r">>)

C3_Witness ==
    /\ LaunchFailed
    /\ caught.cls = "FileNotFoundError"
    /\ result.return_code = -1
    /\ spawns = 1

\* C4: every result has success = (return_code = 0).
C4_SuccessIffZero ==
    pc = "done" => (result.success <=> (result.return_code = 0))

C4_Witness ==
    /\ Completed
    /\ proc.returncode = 2
    /\ proc.stderr = <<>>
    /\ result.return_code = 2
    /\ ~result.success

\* C5: every result has error = None exactly when success is true.
C5_ErrorIffFailure ==
    pc = "done" => ((result.error = None) <=> result.success)

C5_Witness ==
    /\ Completed
    /\ proc.returncode = 1
    /\ proc.stderr = <<>>
    /\ result.error = Some(<<>>)
    /\ ~result.success

\* C6: a completed process that yields success=false has an error that is
\* non-empty and equals the captured stderr text.
C6_ErrorIsStderr ==
    (Completed /\ ~result.success) =>
        /\ result.error.some
        /\ result.error.val # <<>>
        /\ result.error.val = CapturedText(proc.stderr)

\* C7: return_code = -1 exactly when the child process was never started.
C7_SentinelIffNeverRan ==
    pc = "done" => ((result.return_code = -1) <=> (proc.state = "none"))

\* C8: decoding never fails: a launched and exited child's result carries
\* its real exit code and its stdout, whatever bytes it wrote.
C8_DecodingNeverFails ==
    Completed =>
        /\ caught = NoException
        /\ result.return_code = proc.returncode
        /\ result.output = CapturedText(proc.stdout)

\* C9: on every outcome the command field is the executable path followed
\* by the argument vector's elements in order, separated by single spaces.
C9_CommandLine ==
    pc = "done" =>
        result.command = SpaceSeparated(<<client.tf_exe_path>> \o command)

C9_Witness ==
    /\ LaunchFailed
    /\ Len(command) = 2
    /\ client.tf_exe_path = <<"t", "f", ".", "e", "x", "e">>
    /\ result.command = <<"t", "f", ".", "e", "x", "e", " ", "s", "t", "a", "t", "u", "s", " ", ".">>

(***************************************************************************)
(* Properties of the client operations                                     *)
(***************************************************************************)
\* the call has its result, or has handed it (or an exception) to its caller
Ended == pc \in {"done", "returned", "raised"}

\* C10: each operation makes exactly one spawn attempt per call, never a
\* second one after a failure, and has its result only when the child it
\* started has exited.
C10_OneSpawn ==
    /\ caller \in ResultOperations \cup {"get_workspace_info", "none"}
    /\ spawns <= 1
    /\ (pc = "communicating" \/ Ended) => spawns = 1
    /\ Ended => proc.state \in {"none", "exited"}
    /\ (Ended /\ proc.state = "none") => caught \in LaunchExceptions(cmd, work_dir)
    /\ ret # NoReturn => Ended

C10_Witness ==
    /\ pc = "returned"
    /\ caller = "merge_files"
    /\ proc.state = "none"
    /\ caught.cls = "PermissionError"
    /\ spawns = 1
    /\ ret = [kind |-> "result", value |-> result]

\* C11: on every exit path of _execute_command, a cancellation of the waiting
\* task included, no child is left running and no pipe of the process handle
\* stays open once the call has ended.
C11_NoLeak ==
    pc \in {"done", "cancelled"} =>
        /\ proc.state # "running"
        /\ proc.pipes # "open"

(***************************************************************************)
(* Properties of the command translators                                   *)
(***************************************************************************)
\* an optional text or list that is given and not empty
IsSet(o) == o # None /\ o.val # <<>>

\* the tokens when the condition holds, nothing otherwise
When(cond, tokens) == IF cond THEN tokens ELSE <<>>

\* one flag per id, in the order of the ids
FlagPerId(flag, ids) == [i \in 1..Len(ids) |-> flag \o IntToText(ids[i])]

\* C12: checkout_files passes exactly "checkout", "/lock:<lock_type>" if
\* lock_type is set, "/recursive" if recursive, "/type:<type>" if type is
\* set, then the paths in input order.
C12_CheckoutVector ==
    caller = "checkout_files" =>
        command = <<<<"c", "h", "e", "c", "k", "o", "u", "t">>>>
                  \o When(IsSet(opts.lock_type), <<<<"/", "l", "o", "c", "k", ":">> \o opts.lock_type.val>>)
                  \o When(opts.recursive, <<<<"/", "r", "e", "c", "u", "r", "s", "i", "v", "e">>>>)
                  \o When(IsSet(opts.type), <<<<"/", "t", "y", "p", "e", ":">> \o opts.type.val>>)
                  \o opts.paths

C12_Witness ==
    /\ caller = "checkout_files"
    /\ opts = [paths |-> <<<<"a">>, <<"b", " ", "c">>>>, lock_type |-> Some(<<"c", "h", "e", "c", "k", "o", "u", "t">>),
               recursive |-> TRUE, type |-> Some(<<"b", "i", "n">>)]
    /\ command = <<<<"c", "h", "e", "c", "k", "o", "u", "t">>, <<"/", "l", "o", "c", "k", ":", "c", "h", "e", "c", "k", "o", "u", "t">>, <<"/", "r", "e", "c", "u", "r", "s", "i", "v", "e">>, <<"/", "t", "y", "p", "e", ":", "b", "i", "n">>, <<"a">>, <<"b", " ", "c">>>>
    /\ proc.argv = <<<<"t", "f", ".", "e", "x", "e">>>> \o command

\* C13: checkin_files passes exactly "checkin", "/comment:<comment>" always,
\* "/recursive" if recursive, one "/associate:<id>" per id in order, one
\* "/resolve:<id>" per id in order, "/override:<reason>" if set, then the
\* paths; an absent or empty id list emits no flag.
C13_CheckinVector ==
    caller = "checkin_files" =>
        command = <<<<"c", "h", "e", "c", "k", "i", "n">>, <<"/", "c", "o", "m", "m", "e", "n", "t", ":">> \o opts.comment>>
                  \o When(opts.recursive, <<<<"/", "r", "e", "c", "u", "r", "s", "i", "v", "e">>>>)
                  \o When(IsSet(opts.associate), FlagPerId(<<"/", "a", "s", "s", "o", "c", "i", "a", "t", "e", ":">>, opts.associate.val))
                  \o When(IsSet(opts.resolve), FlagPerId(<<"/", "r", "e", "s", "o", "l", "v", "e", ":">>, opts.resolve.val))
                  \o When(IsSet(opts.override), <<<<"/", "o", "v", "e", "r", "r", "i", "d", "e", ":">> \o opts.override.val>>)
                  \o opts.paths

C13_Witness ==
    /\ caller = "checkin_files"
    /\ opts = [paths |-> <<<<"a">>>>, comment |-> <<"f", "i", "x", " ", "b", "u", "g">>, recursive |-> FALSE,
               associate |-> Some(<<123, 7>>), resolve |-> Some(<<>>), override |-> None]
    /\ command = <<<<"c", "h", "e", "c", "k", "i", "n">>, <<"/", "c", "o", "m", "m", "e", "n", "t", ":", "f", "i", "x", " ", "b", "u", "g">>, <<"/", "a", "s", "s", "o", "c", "i", "a", "t", "e", ":", "1", "2", "3">>, <<"/", "a", "s", "s", "o", "c", "i", "a", "t", "e", ":", "7">>, <<"a">>>>
    /\ proc.argv = <<<<"t", "f", ".", "e", "x", "e">>>> \o command

\* C14 as claimed: create_branch passes "branch", then "/version:<v>" if a
\* version is given, then source_path and target_path.
C14_BranchVersionBeforePaths ==
    caller = "create_branch" =>
        command = <<<<"b", "r", "a", "n", "c", "h">>>>
                  \o When(IsSet(opts.version), <<<<"/", "v", "e", "r", "s", "i", "o", "n", ":">> \o opts.version.val>>)
                  \o <<opts.source_path, opts.target_path>>

\* C14 as amended: create_branch passes "branch", source_path, target_path,
\* then "/version:<v>" last if a version is given.
C14_BranchVersionLast ==
    caller = "create_branch" =>
        command = <<<<"b", "r", "a", "n", "c", "h">>, opts.source_path, opts.target_path>>
                  \o When(IsSet(opts.version), <<<<"/", "v", "e", "r", "s", "i", "o", "n", ":">> \o opts.version.val>>)

C14_Witness ==
    /\ caller = "create_branch"
    /\ opts = [source_path |-> <<"a">>, target_path |-> <<"b", " ", "c">>, version |-> Some(<<"C", "5">>)]
    /\ command = <<<<"b", "r", "a", "n", "c", "h">>, <<"a">>, <<"b", " ", "c">>, <<"/", "v", "e", "r", "s", "i", "o", "n", ":", "C", "5">>>>
    /\ proc.argv = <<<<"t", "f", ".", "e", "x", "e">>>> \o command

\* C15: merge_files passes exactly "merge", source, target, "/version:<v>" if
\* version is set, then "/recursive", "/discard", "/baseless", each only if
\* its flag is true, in that order.
C15_MergeVector ==
    caller = "merge_files" =>
        command = <<<<"m", "e", "r", "g", "e">>, opts.source, opts.target>>
                  \o When(IsSet(opts.version), <<<<"/", "v", "e", "r", "s", "i", "o", "n", ":">> \o opts.version.val>>)
                  \o When(opts.recursive, <<<<"/", "r", "e", "c", "u", "r", "s", "i", "v", "e">>>>)
                  \o When(opts.discard, <<<<"/", "d", "i", "s", "c", "a", "r", "d">>>>)
                  \o When(opts.baseless, <<<<"/", "b", "a", "s", "e", "l", "e", "s", "s">>>>)

C15_Witness ==
    /\ caller = "merge_files"
    /\ opts = [source |-> <<"b", " ", "c">>, target |-> <<"a">>, version |-> Some(<<"C", "5">>),
               recursive |-> TRUE, discard |-> TRUE, baseless |-> TRUE]
    /\ command = <<<<"m", "e", "r", "g", "e">>, <<"b", " ", "c">>, <<"a">>, <<"/", "v", "e", "r", "s", "i", "o", "n", ":", "C", "5">>, <<"/", "r", "e", "c", "u", "r", "s", "i", "v", "e">>, <<"/", "d", "i", "s", "c", "a", "r", "d">>, <<"/", "b", "a", "s", "e", "l", "e", "s", "s">>>>
    /\ proc.argv = <<<<"t", "f", ".", "e", "x", "e">>>> \o command

\* C16: get_history passes exactly "history", path, "/recursive" if
\* recursive, "/stopafter:<n>" exactly when a stop-after count is present
\* (every integer n, 0 included), "/version:<v>" if present, "/user:<name>"
\* if present.
C16_HistoryVector ==
    caller = "get_history" =>
        command = <<<<"h", "i", "s", "t", "o", "r", "y">>, opts.path>>
                  \o When(opts.recursive, <<<<"/", "r", "e", "c", "u", "r", "s", "i", "v", "e">>>>)
                  \o When(opts.stopafter # None,
                          <<<<"/", "s", "t", "o", "p", "a", "f", "t", "e", "r", ":">> \o IntToText(opts.stopafter.val)>>)
                  \o When(IsSet(opts.version), <<<<"/", "v", "e", "r", "s", "i", "o", "n", ":">> \o opts.version.val>>)
                  \o When(IsSet(opts.user), <<<<"/", "u", "s", "e", "r", ":">> \o opts.user.val>>)

\* C17: get_status passes "status", "/recursive" if recursive, then the
\* paths in input order, or the single token "." when paths is None or empty;
\* there is always at least one positional argument.
C17_StatusVector ==
    caller = "get_status" =>
        /\ command = <<<<"s", "t", "a", "t", "u", "s">>>>
                     \o When(opts.recursive, <<<<"/", "r", "e", "c", "u", "r", "s", "i", "v", "e">>>>)
                     \o (IF IsSet(opts.paths) THEN opts.paths.val ELSE <<<<".">>>>)
        /\ Len(command) >= (IF opts.recursive THEN 3 ELSE 2)

C17_Witness ==
    /\ caller = "get_status"
    /\ opts = [paths |-> Some(<<>>), recursive |-> TRUE]
    /\ command = <<<<"s", "t", "a", "t", "u", "s">>, <<"/", "r", "e", "c", "u", "r", "s", "i", "v", "e">>, <<".">>>>
    /\ proc.argv = <<<<"t", "f", ".", "e", "x", "e">>>> \o command

\* C18: get_latest passes "get", "/recursive" if recursive, then "/force" if
\* force, then the paths in input order, or "." when paths is None or empty.
C18_GetVector ==
    caller = "get_latest" =>
        command = <<<<"g", "e", "t">>>>
                  \o When(opts.recursive, <<<<"/", "r", "e", "c", "u", "r", "s", "i", "v", "e">>>>)
                  \o When(opts.force, <<<<"/", "f", "o", "r", "c", "e">>>>)
                  \o (IF IsSet(opts.paths) THEN opts.paths.val ELSE <<<<".">>>>)

C18_Witness ==
    /\ caller = "get_latest"
    /\ opts = [paths |-> Some(<<<<"b", " ", "c">>, <<"a">>>>), recursive |-> TRUE, force |-> TRUE]
    /\ command = <<<<"g", "e", "t">>, <<"/", "r", "e", "c", "u", "r", "s", "i", "v", "e">>, <<"/", "f", "o", "r", "c", "e">>, <<"b", " ", "c">>, <<"a">>>>
    /\ proc.argv = <<<<"t", "f", ".", "e", "x", "e">>>> \o command

\* C19: add_files, delete_files and undo_changes pass their base token
\* ("add", "delete", "undo"), "/recursive" iff recursive, then the paths in
\* input order, and nothing else.
C19_PathOperationVectors ==
    /\ caller = "add_files" =>
          command = <<<<"a", "d", "d">>>> \o When(opts.recursive, <<<<"/", "r", "e", "c", "u", "r", "s", "i", "v", "e">>>>) \o opts.paths
    /\ caller = "delete_files" =>
          command = <<<<"d", "e", "l", "e", "t", "e">>>> \o When(opts.recursive, <<<<"/", "r", "e", "c", "u", "r", "s", "i", "v", "e">>>>) \o opts.paths
    /\ caller = "undo_changes" =>
          command = <<<<"u", "n", "d", "o">>>> \o When(opts.recursive, <<<<"/", "r", "e", "c", "u", "r", "s", "i", "v", "e">>>>) \o opts.paths

C19_Witness ==
    /\ caller = "delete_files"
    /\ opts = [paths |-> <<<<"b", " ", "c">>, <<"a">>>>, recursive |-> TRUE]
    /\ command = <<<<"d", "e", "l", "e", "t", "e">>, <<"/", "r", "e", "c", "u", "r", "s", "i", "v", "e">>, <<"b", " ", "c">>, <<"a">>>>
    /\ proc.argv = <<<<"t", "f", ".", "e", "x", "e">>>> \o command

(***************************************************************************)
(* Properties of the workspace lookup                                      *)
(***************************************************************************)
\* C21: get_workspace_info never returns a TFSWorkspaceInfo when the
\* "workfold /collection" command failed: after a launch failure or a
\* non-zero exit it raises an exception to its caller, and it returns a
\* record only when the command succeeded.
C21_FailureIsRaised ==
    (caller = "get_workspace_info" /\ pc \in {"returned", "raised"}) =>
        /\ command = <<<<"w", "o", "r", "k", "f", "o", "l", "d">>, <<"/", "c", "o", "l", "l", "e", "c", "t", "i", "o", "n">>>>
        /\ (proc.state = "none" \/ proc.returncode # 0) =>
              /\ pc = "raised"
              /\ ret.kind = "raise"
              /\ ret.value.cls = "Exception"
        /\ ret.kind = "info" =>
              /\ proc.state = "exited"
              /\ proc.returncode = 0
              /\ result.success
        /\ ret.kind \in {"raise", "info"}

C21_Witness ==
    /\ caller = "get_workspace_info"
    /\ pc = "raised"
    /\ proc.state = "exited"
    /\ proc.returncode = 1
    /\ proc.stderr = <<65>>
    /\ ret = [kind |-> "raise",
              value |-> [cls |-> "Exception", args |-> <<<<"F", "a", "i", "l", "e", "d", " ", "t", "o", " ", "g", "e", "t", " ", "w", "o", "r", "k", "s", "p", "a", "c", "e", " ", "i", "n", "f", "o", ":", " ", "A">>>>]]

\* the positions at which a line of the text begins
LineStarts(t) == {1} \cup {i + 1 : i \in {j \in 1..Len(t) : t[j] = "\n"}}

\* the line that begins at position s, without its newline
LineAt(t, s) ==
    LET ends == {j \in s..Len(t) : t[j] = "\n"} \cup {Len(t) + 1}
        e == CHOOSE j \in ends : \A k \in ends : j <= k
    IN  SubSeq(t, s, e - 1)

HasLabel(line, label) ==
    \E i \in 1..Len(line) :
        /\ i + Len(label) - 1 <= Len(line)
        /\ \A k \in 1..Len(label) : line[i + k - 1] = label[k]

\* the beginnings of the lines that contain the label
LabelledLines(t, label) == {s \in LineStarts(t) : HasLabel(LineAt(t, s), label)}

FirstLabelled(t, label) ==
    LET starts == LabelledLines(t, label)
    IN  LineAt(t, CHOOSE s \in starts : \A u \in starts : s <= u)

\* what follows the last ":" of a line that has one
AfterLastColon(line) ==
    LET colons == {i \in 1..Len(line) : line[i] = ":"}
        last == CHOOSE i \in colons : \A k \in colons : k <= i
    IN  SubSeq(line, last + 1, Len(line))

\* the text from its first to its last character that is not whitespace
Trimmed(x) ==
    LET solid == {i \in 1..Len(x) : x[i] \notin {" ", "\t", "\n", "\r", "\f"}}
    IN  IF solid = {} THEN <<>>
        ELSE SubSeq(x, CHOOSE i \in solid : \A k \in solid : i <= k,
                       CHOOSE i \in solid : \A k \in solid : k <= i)

\* the value the lookup is to give for a label
Scraped(t, label) ==
    IF LabelledLines(t, label) = {} THEN <<"U", "n", "k", "n", "o", "w", "n">>
    ELSE Trimmed(AfterLastColon(FirstLabelled(t, label)))

\* a TFSWorkspaceInfo has been returned
InfoReturned == caller = "get_workspace_info" /\ pc = "returned" /\ ret.kind = "info"

\* C22 as claimed: on a successful lookup name (owner) is the trimmed text
\* after the last ":" of the first output line containing "Workspace:"
\* ("Owner:"), and is "Unknown" exactly when no output line contains the
\* label; collection is "Unknown", location "Local", comment None.
C22_UnknownExactlyWhenAbsent ==
    InfoReturned =>
        /\ ret.value.name = Scraped(result.output, <<"W", "o", "r", "k", "s", "p", "a", "c", "e", ":">>)
        /\ ret.value.owner = Scraped(result.output, <<"O", "w", "n", "e", "r", ":">>)
        /\ (ret.value.name = <<"U", "n", "k", "n", "o", "w", "n">>) <=> (LabelledLines(result.output, <<"W", "o", "r", "k", "s", "p", "a", "c", "e", ":">>) = {})
        /\ (ret.value.owner = <<"U", "n", "k", "n", "o", "w", "n">>) <=> (LabelledLines(result.output, <<"O", "w", "n", "e", "r", ":">>) = {})
        /\ ret.value.collection = <<"U", "n", "k", "n", "o", "w", "n">>
        /\ ret.value.location = <<"L", "o", "c", "a", "l">>
        /\ ret.value.comment = None

\* C22 as amended: name (owner) is the trimmed text after the last ":" of the
\* first output line containing "Workspace:" ("Owner:"), and is "Unknown"
\* when no output line contains the label (a labelled line may itself carry
\* the value "Unknown"); collection is "Unknown", location "Local", comment
\* None.
C22_ScrapedFields ==
    InfoReturned =>
        /\ ret.value.name = Scraped(result.output, <<"W", "o", "r", "k", "s", "p", "a", "c", "e", ":">>)
        /\ ret.value.owner = Scraped(result.output, <<"O", "w", "n", "e", "r", ":">>)
        /\ ret.value.collection = <<"U", "n", "k", "n", "o", "w", "n">>
        /\ ret.value.location = <<"L", "o", "c", "a", "l">>
        /\ ret.value.comment = None

C22_Witness ==
    /\ InfoReturned
    /\ result.output = <<"O", "w", "n", "e", "r", ":", " ", "d", ":", "e", "\n", "\t", "W", "o", "r", "k", "s", "p", "a", "c", "e", ":", " ", " ", "a", " ", "b", " ", "\r">>
    /\ ret.value.name = <<"a", " ", "b">>
    /\ ret.value.owner = <<"e">>
    /\ ret.value.collection = <<"U", "n", "k", "n", "o", "w", "n">>

(***************************************************************************)
(* Properties of the server                                                *)
(***************************************************************************)
\* the tool has returned its response
Responded(i) == calls[i].pc = "responded" /\ calls[i].tool \in Tools

\* C23: every tool response has exactly the fields success, output, error
\* and command, each equal to the same field of the TFSCommandResult the
\* client operation returned, whether the command succeeded or failed.
C23_ToolResponse ==
    \A i \in CallIds :
        Responded(i) =>
            /\ DOMAIN calls[i].response = {"success", "output", "error", "command"}
            /\ calls[i].response.success = calls[i].result.success
            /\ calls[i].response.output = calls[i].result.output
            /\ calls[i].response.error = calls[i].result.error
            /\ calls[i].response.command = calls[i].result.command

C23_Witness ==
    /\ Responded(1)
    /\ calls[1].tool = "tf_merge"
    /\ calls[1].proc.returncode = 1
    /\ calls[1].response = [success |-> FALSE, output |-> <<>>, error |-> Some(<<"A">>),
                            command |-> <<"t", "f", ".", "e", "x", "e", " ", "m", "e", "r", "g", "e", " ", "b", " ", "c", " ", "a">>]

\* C24: the status resource tfs://status/{path} returns, for every path and
\* every outcome of the status command, the four fields of the tools
\* (success, output, error, command) and the echoed path.
C24_StatusResourceShape ==
    \A i \in CallIds :
        (calls[i].pc = "responded" /\ calls[i].tool = "get_path_status") =>
            /\ DOMAIN calls[i].response = {"path", "success", "output", "error", "command"}
            /\ calls[i].response.path = calls[i].request.path
            /\ calls[i].response.success = calls[i].result.success
            /\ calls[i].response.output = calls[i].result.output
            /\ calls[i].response.error = calls[i].result.error
            /\ calls[i].response.command = calls[i].result.command

\* the tools that take a working_directory argument
OverrideTools ==
    {"tf_checkout", "tf_checkin", "tf_add", "tf_delete", "tf_rename", "tf_undo",
     "tf_status", "tf_get_latest"}

\* the call was given a working directory that is not empty
HasOverride(i) ==
    /\ calls[i].tool \in OverrideTools
    /\ calls[i].request.working_directory # None
    /\ calls[i].request.working_directory.val # <<>>

\* C25: the shared client of the server keeps the executable path and the
\* working directory it was constructed with through every call, with or
\* without an override; a call with a non-empty override runs on a client of
\* its own that has the shared executable path and the override as working
\* directory, every other call runs on the shared client.
C25_SharedClientKept ==
    /\ [][server' = server]_vars
    /\ [](\A i \in CallIds :
            calls[i].pc # "idle" =>
                IF HasOverride(i)
                THEN calls[i].client =
                         [tf_exe_path |-> server.tfs_client.tf_exe_path,
                          working_directory |-> calls[i].request.working_directory.val]
                ELSE calls[i].client = server.tfs_client)

C25_Witness ==
    /\ calls[1].pc = "responded"
    /\ calls[1].tool = "tf_add"
    /\ calls[1].request.working_directory = Some(<<"/", "o">>)
    /\ calls[1].client = [tf_exe_path |-> <<"t", "f">>, working_directory |-> <<"/", "o">>]
    /\ calls[1].proc.cwd = <<"/", "o">>
    /\ server.tfs_client = [tf_exe_path |-> <<"t", "f">>, working_directory |-> <<"/", "c", "w", "d">>]

\* a flag of the request that is given and true
Given(flag) == flag = Some(TRUE)

\* the client operation a tool is to invoke, with its arguments
Expected(tool, r) ==
    CASE tool = "tf_checkout" ->
           [op |-> "checkout_files",
            args |-> [paths |-> r.paths, lock_type |-> r.lock_type,
                      recursive |-> Given(r.recursive), type |-> r.file_type]]
      [] tool = "tf_checkin" ->
           [op |-> "checkin_files",
            args |-> [paths |-> r.paths, comment |-> r.comment,
                      recursive |-> Given(r.recursive), associate |-> r.associate,
                      resolve |-> r.resolve, override |-> r.override_reason]]
      [] tool = "tf_add" ->
           [op |-> "add_files", args |-> [paths |-> r.paths, recursive |-> Given(r.recursive)]]
      [] tool = "tf_delete" ->
           [op |-> "delete_files", args |-> [paths |-> r.paths, recursive |-> Given(r.recursive)]]
      [] tool = "tf_rename" ->
           [op |-> "rename_file", args |-> [old_path |-> r.old_path, new_path |-> r.new_path]]
      [] tool = "tf_undo" ->
           [op |-> "undo_changes", args |-> [paths |-> r.paths, recursive |-> Given(r.recursive)]]
      [] tool = "tf_status" ->
           [op |-> "get_status", args |-> [paths |-> r.paths, recursive |-> Given(r.recursive)]]
      [] tool = "tf_get_latest" ->
           [op |-> "get_latest",
            args |-> [paths |-> r.paths, recursive |-> Given(r.recursive),
                      force |-> Given(r.force)]]
      [] tool = "tf_branch" ->
           [op |-> "create_branch",
            args |-> [source_path |-> r.source_path, target_path |-> r.target_path,
                      version |-> r.version]]
      [] tool = "tf_merge" ->
           [op |-> "merge_files",
            args |-> [source |-> r.source, target |-> r.target, version |-> r.version,
                      recursive |-> Given(r.recursive), discard |-> Given(r.discard),
                      baseless |-> Given(r.baseless)]]
      [] tool = "tf_history" ->
           [op |-> "get_history",
            args |-> [path |-> r.path, recursive |-> Given(r.recursive),
                      stopafter |-> r.stopafter, version |-> r.version, user |-> r.user]]

\* C27: each tool call invokes the corresponding client operation exactly
\* once, with the caller's arguments unchanged and the default (false for a
\* flag, None for an optional value) for each argument left out.
C27_OneInvocation ==
    \A i \in CallIds :
        calls[i].tool \in Tools =>
            calls[i].invoked = <<Expected(calls[i].tool, calls[i].request)>>

C27_Witness ==
    /\ calls[1].pc = "responded"
    /\ calls[1].tool = "tf_status"
    /\ calls[1].request = [paths |-> None, recursive |-> None, working_directory |-> None]
    /\ calls[1].invoked = <<[op |-> "get_status", args |-> [paths |-> None, recursive |-> FALSE]]>>
    /\ calls[1].command = <<<<"s", "t", "a", "t", "u", "s">>, <<".">>>>

\* the last n entries of a sequence
Suffix(s, n) == SubSeq(s, Len(s) - n + 1, Len(s))

\* C28: the child receives the argument vector element for element: its
\* argv is the executable followed by the translator's tokens, one entry per
\* token; a path or comment with blanks, quotes or shell metacharacters is
\* one entry, unsplit and unchanged.
C28_ArgvElementForElement ==
    \A i \in CallIds :
        calls[i].proc.state # "none" =>
            LET argv == calls[i].proc.argv
                r == calls[i].request
            IN  /\ argv = <<calls[i].client.tf_exe_path>> \o calls[i].command
                /\ Len(argv) = 1 + Len(calls[i].command)
                /\ calls[i].tool \in {"tf_checkout", "tf_checkin", "tf_add", "tf_delete", "tf_undo"}
                      => Suffix(argv, Len(r.paths)) = r.paths
                /\ calls[i].tool = "tf_rename" => Suffix(argv, 2) = <<r.old_path, r.new_path>>
                /\ calls[i].tool = "tf_checkin" => argv[3] = <<"/", "c", "o", "m", "m", "e", "n", "t", ":">> \o r.comment
                /\ calls[i].tool = "get_path_status"
                      => Tail(argv) = <<<<"s", "t", "a", "t", "u", "s">>, r.path>>

C28_Witness ==
    /\ calls[1].tool = "tf_rename"
    /\ calls[1].proc.state = "exited"
    /\ calls[1].proc.argv = <<<<"t", "f", ".", "e", "x", "e">>, <<"r", "e", "n", "a", "m", "e">>, <<"\"", "x", "\"", " ", "&", " ", "d", "e", "l", " ", "y", ";">>, <<"b", " ", "c">>>>

(***************************************************************************)
(* Properties of calls in flight at the same time                          *)
(***************************************************************************)
\* the tokens of a call whose request sets no flag and no version
OwnTokens(tool, r) ==
    CASE tool = "tf_add" -> <<<<"a", "d", "d">>>> \o r.paths
      [] tool = "tf_status" -> <<<<"s", "t", "a", "t", "u", "s">>, <<".">>>>
      [] tool = "tf_branch" -> <<<<"b", "r", "a", "n", "c", "h">>, r.source_path, r.target_path>>
      [] tool = "tf_merge" -> <<<<"m", "e", "r", "g", "e">>, r.source, r.target>>
      [] tool = "tf_history" -> <<<<"h", "i", "s", "t", "o", "r", "y">>, r.path>>
      [] tool = "get_path_status" -> <<<<"s", "t", "a", "t", "u", "s">>, r.path>>
      [] tool = "get_workspace_info" -> <<<<"w", "o", "r", "k", "f", "o", "l", "d">>, <<"/", "c", "o", "l", "l", "e", "c", "t", "i", "o", "n">>>>

\* the directory a call is to run in: its own override, or the directory
\* the server was constructed with
OwnDirectory(i) ==
    IF HasOverride(i) THEN calls[i].request.working_directory.val ELSE <<"/", "t", "e", "s", "t", "/", "d", "i", "r">>

\* C26: under every interleaving of concurrent calls, each call's child is
\* spawned with that call's own argument vector and working directory, and
\* each call's result is built from the stdout, stderr and exit code of its
\* own child.
C26_CallsIsolated ==
    \A i \in CallIds :
        /\ calls[i].proc.state # "none" =>
              /\ calls[i].proc.argv = <<<<"t", "f", ".", "e", "x", "e">>>> \o OwnTokens(calls[i].tool, calls[i].request)
              /\ calls[i].proc.cwd = OwnDirectory(i)
        /\ (calls[i].pc \in {"done", "responded"} /\ calls[i].proc.state = "exited") =>
              /\ calls[i].result.output = CapturedText(calls[i].proc.stdout)
              /\ calls[i].result.return_code = calls[i].proc.returncode
              /\ calls[i].result.success = (calls[i].proc.returncode = 0)
              /\ calls[i].result.error =
                    IF calls[i].proc.returncode = 0 THEN None
                    ELSE Some(CapturedText(calls[i].proc.stderr))
              /\ calls[i].result.command =
                    SpaceSeparated(<<<<"t", "f", ".", "e", "x", "e">>>> \o OwnTokens(calls[i].tool, calls[i].request))

C26_Witness ==
    /\ calls[1].tool = "tf_add"
    /\ calls[1].request.working_directory = Some(<<"/", "o">>)
    /\ calls[1].pc = "done"
    /\ calls[1].proc.cwd = <<"/", "o">>
    /\ calls[1].result.output = <<"A">>
    /\ calls[1].result.command = <<"t", "f", ".", "e", "x", "e", " ", "a", "d", "d", " ", "a">>
    /\ calls[2].tool = "tf_status"
    /\ calls[2].request.working_directory = Some(<<"/", "p">>)
    /\ calls[2].pc = "communicating"
    /\ calls[2].proc.state = "exited"
    /\ calls[2].proc.cwd = <<"/", "p">>
    /\ calls[2].proc.stderr = <<65, 65>>

\* the tools and resources without a working_directory argument
SharedClientCalls ==
    {"tf_branch", "tf_merge", "tf_history", "get_workspace_info", "get_path_status"}

\* C29: tf_branch, tf_merge, tf_history and both resources take no working
\* directory and always execute on the shared client: their child runs in
\* the directory the server was constructed with, whatever overrides other
\* calls, earlier or in flight, were given.
C29_DefaultDirectory ==
    \A i \in CallIds :
        calls[i].tool \in SharedClientCalls =>
            /\ "working_directory" \notin DOMAIN calls[i].request
            /\ calls[i].client = [tf_exe_path |-> <<"t", "f", ".", "e", "x", "e">>, working_directory |-> <<"/", "t", "e", "s", "t", "/", "d", "i", "r">>]
            /\ calls[i].client = server.tfs_client
            /\ calls[i].work_dir = <<"/", "t", "e", "s", "t", "/", "d", "i", "r">>
            /\ calls[i].proc.state # "none" => calls[i].proc.cwd = <<"/", "t", "e", "s", "t", "/", "d", "i", "r">>

C29_Witness ==
    /\ calls[1].tool = "tf_status"
    /\ calls[1].request.working_directory = Some(<<"/", "p">>)
    /\ calls[1].proc.state = "running"
    /\ calls[1].proc.cwd = <<"/", "p">>
    /\ calls[2].tool = "tf_branch"
    /\ calls[2].proc.state = "running"
    /\ calls[2].proc.cwd = <<"/", "t", "e", "s", "t", "/", "d", "i", "r">>

====
